---- MODULE Spec2Model ----
(***************************************************************************)
(* Pragati backend: access middleware, login, user status, attendance      *)
(* sessions and attendance records, modelled as a state machine over the   *)
(* relational tables.  Every await on the database in a handler is one     *)
(* atomic step of the request that runs it; the synchronous code between   *)
(* two awaits belongs to the step of the await that precedes it.           *)
(*                                                                         *)
(* Time is counted in hours of the server's local clock, hour 0 being a    *)
(* local midnight.  Identifiers are positive integers, 0 stands for        *)
(* null / undefined.  Request bodies are bodies that passed validateBody.  *)
(***************************************************************************)
EXTENDS Integers, Sequences, FiniteSets, TLC

VARIABLES
    users,       \* User table: id -> row
    students,    \* Student table: id -> row
    sessions,    \* AttendanceSession table, in insertion order (id = autoincrement)
    attendance,  \* StudentAttendance table, in insertion order
    submitted,   \* history: the status last committed for each (session, student)
    now,         \* the server clock, in hours
    deviceKey,   \* env.attendanceDeviceKey
    req,         \* the requests in flight, one per slot
    groupMembers,         \* StudentGroupMember table, in insertion order
    teacherSubjects,      \* TeacherSubject table, in insertion order
    notifications,        \* Notification table, in insertion order
    notificationTargets,  \* NotificationTarget table, in insertion order
    timetable             \* ClassroomTimetable table: set of rows

(* the tables of enrolment, notices and timetables *)
others == <<groupMembers, teacherSubjects, notifications, notificationTargets, timetable>>

(* the tables of users, students and attendance, the clock and the key *)
core == <<users, students, sessions, attendance, submitted, now, deviceKey>>

vars == <<users, students, sessions, attendance, submitted, now, deviceKey, req,
          groupMembers, teacherSubjects, notifications, notificationTargets, timetable>>

----------------------------------------------------------------------------
(* Calendar and program constants *)

HoursPerDay == 24
EDIT_WINDOW_HOURS == 24

(* Bounds of the model *)
MaxNow == 48          \* the clock stops here
MaxStudents == 4      \* createStudent stops at this many rows

NoKey == "none"
GoodKey == "device-secret"
BadKey == "wrong-secret"

NoToken == "none"
InvalidToken == "invalid"     \* bad signature or expired
ValidToken == "valid"         \* signed with AUTH_JWT_SECRET and unexpired

Slots == {1, 2}

----------------------------------------------------------------------------
(* Tables that no modelled route writes *)

SchoolIds == {1, 2}

Classroom ==
    (10 :> [schoolId |-> 1, gradeLevel |-> 8, sectionLabel |-> "A"]) @@
    (11 :> [schoolId |-> 1, gradeLevel |-> 9, sectionLabel |-> "B"]) @@
    (20 :> [schoolId |-> 2, gradeLevel |-> 5, sectionLabel |-> "B"])

Teacher ==
    (101 :> [schoolId |-> 1]) @@
    (102 :> [schoolId |-> 1]) @@
    (103 :> [schoolId |-> 2])

TeacherSubject ==
    <<[id |-> 1, teacherId |-> 102, subjectId |-> 1, classroomId |-> 10, startDate |-> 0]>>

Hash(password) == <<"bcrypt", password>>

InitUsers ==
    (1 :> [email |-> "admin@mock.test", passwordHash |-> Hash("AdminPass123!"),
           role |-> "ADMIN", status |-> "active", schoolId |-> 0, teacherId |-> 0, studentId |-> 0]) @@
    (2 :> [email |-> "teacher@mock.test", passwordHash |-> Hash("TeacherPass123!"),
           role |-> "TEACHER", status |-> "active", schoolId |-> 1, teacherId |-> 101, studentId |-> 0]) @@
    (3 :> [email |-> "teacher2@mock.test", passwordHash |-> Hash("TeacherPass123!"),
           role |-> "TEACHER", status |-> "active", schoolId |-> 1, teacherId |-> 102, studentId |-> 0]) @@
    (4 :> [email |-> "principal@mock.test", passwordHash |-> Hash("PrincipalPass123!"),
           role |-> "PRINCIPAL", status |-> "active", schoolId |-> 1, teacherId |-> 0, studentId |-> 0]) @@
    (5 :> [email |-> "student@mock.test", passwordHash |-> Hash("StudentPass123!"),
           role |-> "STUDENT", status |-> "active", schoolId |-> 1, teacherId |-> 0, studentId |-> 1]) @@
    (6 :> [email |-> "gov@mock.test", passwordHash |-> Hash("GovPass1234!"),
           role |-> "GOVERNMENT", status |-> "active", schoolId |-> 0, teacherId |-> 0, studentId |-> 0])

InitStudents ==
    (1 :> [schoolId |-> 1, classroomId |-> 10, classTeacherId |-> 101,
           gradeLevel |-> 8, sectionLabel |-> "A"]) @@
    (2 :> [schoolId |-> 1, classroomId |-> 10, classTeacherId |-> 0,
           gradeLevel |-> 8, sectionLabel |-> "A"]) @@
    (3 :> [schoolId |-> 2, classroomId |-> 20, classTeacherId |-> 103,
           gradeLevel |-> 5, sectionLabel |-> "B"])

----------------------------------------------------------------------------
(* Routes: method and path as the access middleware sees them (req.path is *)
(* relative to the router the middleware is mounted on)                    *)

Routes ==
    [createSession    |-> [method |-> "POST",  path |-> <<"attendance", "sessions">>],
     recordAttendance |-> [method |-> "POST",  path |-> <<"attendance", "sessions", ":sessionId", "records">>],
     getSessionDetail |-> [method |-> "GET",   path |-> <<"attendance", "sessions", ":sessionId">>],
     getClassroomSessions |-> [method |-> "GET",
                               path |-> <<"attendance", "classrooms", ":classroomId", "sessions">>],
     getClassroomSummary |-> [method |-> "GET",
                              path |-> <<"attendance", "classrooms", ":classroomId", "summary">>],
     getClassroomStudents |-> [method |-> "GET",
                               path |-> <<"teachers", "me", "classrooms", ":classroomId", "students">>],
     setUserStatus    |-> [method |-> "PATCH", path |-> <<"users", ":id", "status">>],
     createStudent    |-> [method |-> "POST",  path |-> <<"core", "students">>],
     updateStudent    |-> [method |-> "PATCH", path |-> <<"core", "students", ":id">>],
     createUser       |-> [method |-> "POST",  path |-> <<"users">>],
     getStudent       |-> [method |-> "GET",   path |-> <<"core", "students", ":id">>],
     getStudentAttendance |-> [method |-> "GET", path |-> <<"attendance", "students", ":studentId">>],
     getStudentSummary |-> [method |-> "GET",  path |-> <<"attendance", "students", "summary">>],
     addGroupMembers  |-> [method |-> "POST",
                           path |-> <<"enrollment", "student-groups", ":groupId", "members">>],
     assignTeacherSubject |-> [method |-> "POST", path |-> <<"enrollment", "teacher-subjects">>],
     createNotification |-> [method |-> "POST", path |-> <<"communications", "notifications">>],
     replaceClassroomTimetable |-> [method |-> "PUT",
                                    path |-> <<"timetables", "classrooms", ":classroomId">>]]

startsWith(path, prefix) ==
    /\ Len(path) >= Len(prefix)
    /\ SubSeq(path, 1, Len(prefix)) = prefix

----------------------------------------------------------------------------
(* A request slot.  The input fields are what the client sent; user and    *)
(* deviceAuth are what authenticate attached (req.user is the row fetched  *)
(* by authenticate; handlers read only its role and links, which no route  *)
(* of the model rewrites); status, message, token and canEdit are the      *)
(* response.  A finished slot keeps the response and who asked, the body   *)
(* of the request is gone.  existedAtStart records whether the session a   *)
(* createSession request asks for existed when the request arrived.        *)

(* a summary before its queries have run *)
NoCounts ==
    [total |-> 0, present |-> 0, absent |-> 0, late |-> 0, excused |-> 0, attendanceRate |-> 0]

NoSummary == [today |-> NoCounts, thisWeek |-> NoCounts, overall |-> NoCounts]

Blank ==
    [pc |-> "idle", op |-> "none",
     authToken |-> NoToken, tokenSub |-> 0, key |-> NoKey,
     user |-> 0, deviceAuth |-> FALSE,
     schoolId |-> 0, classroomId |-> 0, sessionDate |-> 0, startsAt |-> 0, endsAt |-> 0,
     sessionId |-> 0, entries |-> <<>>,
     targetId |-> 0, newStatus |-> "none",
     studentId |-> 0, setTeacher |-> FALSE, classTeacherId |-> 0,
     email |-> "none", password |-> "none",
     existedAtStart |-> FALSE,
     newRole |-> "none", teacherId |-> 0,
     at |-> 0, data |-> 0, summary |-> NoSummary,
     groupId |-> 0, studentIds |-> <<>>, addedBy |-> 0, subjectId |-> 0, startDate |-> 0,
     isPublic |-> FALSE, studentGroupIds |-> <<>>, teacherIds |-> <<>>, classroomIds |-> <<>>, pending |-> <<>>,
     timetableEntries |-> <<>>,
     homeroom |-> FALSE, dateFilter |-> FALSE, payload |-> {},
     status |-> 0, message |-> "none", token |-> 0, canEdit |-> FALSE]

Free(r) == req[r].pc \in {"idle", "done"}

Respond(rq, code, msg) ==
    [Blank EXCEPT !.pc = "done", !.op = rq.op,
                  !.authToken = rq.authToken, !.tokenSub = rq.tokenSub, !.key = rq.key,
                  !.user = rq.user, !.deviceAuth = rq.deviceAuth,
                  !.existedAtStart = rq.existedAtStart,
                  !.status = code, !.message = msg]

----------------------------------------------------------------------------
(* Access middleware *)

(* as isAttendanceDeviceRequest, the method not looked at *)
isAttendanceDeviceRequestAnyMethod(rq) ==
    /\ deviceKey # NoKey
    /\ rq.key # NoKey
    /\ rq.key = deviceKey
    /\ startsWith(Routes[rq.op].path, <<"attendance", "sessions">>)

isAttendanceDeviceRequest(rq) ==
    /\ deviceKey # NoKey
    /\ rq.key # NoKey
    /\ rq.key = deviceKey
    /\ Routes[rq.op].method = "POST"
    /\ startsWith(Routes[rq.op].path, <<"attendance", "sessions">>)

(* as authenticate, the status of the user not looked at *)
authenticateAnyStatus(rq) ==
    IF isAttendanceDeviceRequest(rq)
    THEN [rq EXCEPT !.deviceAuth = TRUE, !.pc = "next"]
    ELSE IF rq.authToken = NoToken
    THEN Respond(rq, 401, "Missing or invalid Authorization header")
    ELSE IF rq.authToken = InvalidToken
    THEN Respond(rq, 401, "Invalid or expired token")
    ELSE IF rq.tokenSub = 0
    THEN Respond(rq, 401, "Invalid token payload")
    ELSE IF rq.tokenSub \notin DOMAIN users
    THEN Respond(rq, 401, "Invalid user")
    ELSE [rq EXCEPT !.user = rq.tokenSub, !.pc = "next"]

(* The result is the request with deviceAuth or user attached and         *)
(* pc = "next", or the finished request carrying the 401 / 403.            *)
authenticate(rq) ==
    IF isAttendanceDeviceRequest(rq)
    THEN [rq EXCEPT !.deviceAuth = TRUE, !.pc = "next"]
    ELSE IF rq.authToken = NoToken
    THEN Respond(rq, 401, "Missing or invalid Authorization header")
    ELSE IF rq.authToken = InvalidToken
    THEN Respond(rq, 401, "Invalid or expired token")
    ELSE IF rq.tokenSub = 0
    THEN Respond(rq, 401, "Invalid token payload")
    ELSE IF rq.tokenSub \notin DOMAIN users
    THEN Respond(rq, 401, "Invalid user")
    ELSE IF users[rq.tokenSub].status # "active"
    THEN Respond(rq, 403, "User is blocked")
    ELSE [rq EXCEPT !.user = rq.tokenSub, !.pc = "next"]

(* as authorizeRoles, the role not compared with the list *)
authorizeRolesAnyRole(rq, roles) ==
    IF rq.user = 0
    THEN Respond(rq, 401, "Unauthorized")
    ELSE rq

authorizeRoles(rq, roles) ==
    IF rq.user = 0
    THEN Respond(rq, 401, "Unauthorized")
    ELSE IF users[rq.user].role \notin roles
    THEN Respond(rq, 403, "Forbidden")
    ELSE rq

----------------------------------------------------------------------------
(* Attendance helpers *)

normalizeDateOnly(value) == value - (value % HoursPerDay)

computeEditDeadline(sessionDate) ==
    normalizeDateOnly(sessionDate) + EDIT_WINDOW_HOURS

(* as isWithinEditWindow, the deadline itself excluded *)
isWithinEditWindowStrict(sessionDate) == now < computeEditDeadline(sessionDate)

(* as isWithinEditWindow, the session date compared with the deadline in  *)
(* place of the clock                                                      *)
isWithinEditWindowOfSessionDate(sessionDate) == sessionDate <= computeEditDeadline(sessionDate)

isWithinEditWindow(sessionDate) == now <= computeEditDeadline(sessionDate)

(* as isHomeroomTeacherForClassroom, any class teacher of the classroom    *)
(* taken for the caller                                                    *)
isHomeroomTeacherAnyTeacher(teacherId, classroomId) ==
    \E s \in DOMAIN students :
        /\ students[s].classroomId = classroomId
        /\ students[s].classTeacherId # 0

(* as isHomeroomTeacherForClassroom, read from the student rows as they   *)
(* were at the start in place of the current ones                          *)
isHomeroomTeacherFromInitialRows(teacherId, classroomId) ==
    \E s \in DOMAIN InitStudents :
        /\ InitStudents[s].classroomId = classroomId
        /\ InitStudents[s].classTeacherId = teacherId

isHomeroomTeacherForClassroom(teacherId, classroomId) ==
    \E s \in DOMAIN students :
        /\ students[s].classroomId = classroomId
        /\ students[s].classTeacherId = teacherId

(* req.user?.teacher && req.user.teacherId *)
hasTeacher(rq) ==
    /\ rq.user # 0
    /\ users[rq.user].teacherId \in DOMAIN Teacher

(* as ensureTeacherOrDevice, every signed-in user taken for a teacher *)
ensureTeacherOrDeviceAnyUser(rq) ==
    IF rq.user # 0
    THEN "teacher"
    ELSE IF rq.deviceAuth
    THEN "device"
    ELSE "null"

ensureTeacherOrDevice(rq) ==
    IF rq.user # 0 /\ users[rq.user].role = "TEACHER" /\ hasTeacher(rq)
    THEN "teacher"
    ELSE IF rq.deviceAuth
    THEN "device"
    ELSE "null"

SessionRows(classroomId, sessionDate) ==
    {i \in 1..Len(sessions) :
        /\ sessions[i].classroomId = classroomId
        /\ sessions[i].sessionDate = sessionDate}

(* as InsertSessionAllowed, the unique index on (classroomId, sessionDate)  *)
(* missing                                                                 *)
InsertSessionAllowedNoUniqueIndex(row) == row.classroomId \in DOMAIN Classroom

(* AttendanceSession_classroomId_sessionDate_key and                       *)
(* AttendanceSession_classroomId_fkey: the insert is refused when one of   *)
(* them is violated                                                        *)
InsertSessionAllowed(row) ==
    /\ SessionRows(row.classroomId, row.sessionDate) = {}
    /\ row.classroomId \in DOMAIN Classroom

----------------------------------------------------------------------------
(* POST /attendance/sessions *)

createSessionStart(rq) ==
    LET actor == ensureTeacherOrDevice(rq) IN
    IF actor = "null"
    THEN Respond(rq, 403, "Only teachers or authorized devices can mark attendance")
    ELSE IF actor = "teacher" /\ hasTeacher(rq)
    THEN IF Teacher[users[rq.user].teacherId].schoolId # rq.schoolId
         THEN Respond(rq, 403, "Forbidden")
         ELSE [rq EXCEPT !.pc = "homeroom"]
    ELSE [rq EXCEPT !.pc = "find"]

BeginCreateSession(r, in) ==
    /\ Free(r)
    /\ in.op = "createSession"
    /\ LET seen == [in EXCEPT !.existedAtStart =
                        SessionRows(in.classroomId, normalizeDateOnly(in.sessionDate)) # {}]
           a == authenticate(seen)
       IN req' = [req EXCEPT ![r] = IF a.pc = "done" THEN a ELSE createSessionStart(a)]
    /\ UNCHANGED <<users, students, sessions, attendance, submitted, now, deviceKey, others>>

CreateSessionHomeroom(r) ==
    /\ req[r].op = "createSession"
    /\ req[r].pc = "homeroom"
    /\ LET rq == req[r]
           ownsClassroom == isHomeroomTeacherForClassroom(users[rq.user].teacherId, rq.classroomId)
       IN req' = [req EXCEPT ![r] =
                    IF ~ownsClassroom
                    THEN Respond(rq, 403, "Teachers can only manage attendance for their homerooms")
                    ELSE [rq EXCEPT !.pc = "find"]]
    /\ UNCHANGED <<users, students, sessions, attendance, submitted, now, deviceKey, others>>

(* as CreateSessionFind, the existing session not looked up *)
CreateSessionFindNoLookup(r) ==
    /\ req[r].op = "createSession"
    /\ req[r].pc = "find"
    /\ req' = [req EXCEPT ![r] = [req[r] EXCEPT !.pc = "create"]]
    /\ UNCHANGED <<users, students, sessions, attendance, submitted, now, deviceKey, others>>

(* as CreateSessionFind, the times of the request merged into the session *)
(* that exists                                                            *)
CreateSessionFindMerges(r) ==
    /\ req[r].op = "createSession"
    /\ req[r].pc = "find"
    /\ LET rq == req[r]
           existingSession == SessionRows(rq.classroomId, normalizeDateOnly(rq.sessionDate))
       IN /\ req' = [req EXCEPT ![r] =
                    IF existingSession # {}
                    THEN Respond(rq, 409, "Attendance already exists for this classroom on the selected date")
                    ELSE [rq EXCEPT !.pc = "create"]]
          /\ sessions' = [i \in 1..Len(sessions) |->
                            IF i \in existingSession
                            THEN [sessions[i] EXCEPT !.startsAt = rq.startsAt,
                                                     !.endsAt = rq.endsAt]
                            ELSE sessions[i]]
    /\ UNCHANGED <<users, students, attendance, submitted, now, deviceKey, others>>

CreateSessionFind(r) ==
    /\ req[r].op = "createSession"
    /\ req[r].pc = "find"
    /\ LET rq == req[r]
           existingSession == SessionRows(rq.classroomId, normalizeDateOnly(rq.sessionDate))
       IN req' = [req EXCEPT ![r] =
                    IF existingSession # {}
                    THEN Respond(rq, 409, "Attendance already exists for this classroom on the selected date")
                    ELSE [rq EXCEPT !.pc = "create"]]
    /\ UNCHANGED <<users, students, sessions, attendance, submitted, now, deviceKey, others>>

CreateSessionInsert(r) ==
    /\ req[r].op = "createSession"
    /\ req[r].pc = "create"
    /\ LET rq == req[r]
           row == [id |-> Len(sessions) + 1,
                   schoolId |-> rq.schoolId,
                   classroomId |-> rq.classroomId,
                   sessionDate |-> normalizeDateOnly(rq.sessionDate),
                   startsAt |-> rq.startsAt,
                   endsAt |-> rq.endsAt]
       IN IF InsertSessionAllowed(row)
          THEN /\ sessions' = Append(sessions, row)
               /\ req' = [req EXCEPT ![r] = Respond(rq, 201, "created")]
          ELSE /\ sessions' = sessions
               /\ req' = [req EXCEPT ![r] = Respond(rq, 500, "Internal server error")]
    /\ UNCHANGED <<users, students, attendance, submitted, now, deviceKey, others>>

----------------------------------------------------------------------------
(* POST /attendance/sessions/:sessionId/records *)

SessionById(id) == {i \in 1..Len(sessions) : sessions[i].id = id}

(* as AttendanceRows, the student left out of the where clause *)
AttendanceRowsOfSession(rows, sessionId, studentId) ==
    {i \in 1..Len(rows) : rows[i].attendanceSessionId = sessionId}

AttendanceRows(rows, sessionId, studentId) ==
    {i \in 1..Len(rows) :
        /\ rows[i].attendanceSessionId = sessionId
        /\ rows[i].studentId = studentId}

(* as upsert, every entry inserted as a new row *)
upsertAlwaysCreates(rows, sessionId, entry) ==
    Append(rows, [id |-> Len(rows) + 1,
                  attendanceSessionId |-> sessionId,
                  studentId |-> entry.studentId,
                  status |-> entry.status])

(* tx.studentAttendance.upsert on attendanceSessionId_studentId *)
upsert(rows, sessionId, entry) ==
    LET found == AttendanceRows(rows, sessionId, entry.studentId) IN
    IF found # {}
    THEN [i \in 1..Len(rows) |->
            IF i \in found THEN [rows[i] EXCEPT !.status = entry.status] ELSE rows[i]]
    ELSE Append(rows, [id |-> Len(rows) + 1,
                       attendanceSessionId |-> sessionId,
                       studentId |-> entry.studentId,
                       status |-> entry.status])

(* the upsert throws when the row it would create names no student *)
upsertAllowed(entry) == entry.studentId \in DOMAIN students

RECURSIVE upsertAll(_, _, _)
upsertAll(rows, sessionId, entries) ==
    IF entries = <<>>
    THEN rows
    ELSE upsertAll(upsert(rows, sessionId, Head(entries)), sessionId, Tail(entries))

(* the status a batch leaves for a student: that of its last entry for him *)
LastStatus(entries, studentId) ==
    LET at == {i \in 1..Len(entries) : entries[i].studentId = studentId}
    IN entries[CHOOSE i \in at : \A j \in at : j <= i].status

Submit(history, sessionId, entries) ==
    LET named == {entries[i].studentId : i \in 1..Len(entries)} IN
    {h \in history : ~(h.attendanceSessionId = sessionId /\ h.studentId \in named)}
    \cup {[attendanceSessionId |-> sessionId, studentId |-> st,
           status |-> LastStatus(entries, st)] : st \in named}

recordAttendanceStart(rq) ==
    IF ensureTeacherOrDevice(rq) = "null"
    THEN Respond(rq, 403, "Only teachers or authorized devices can mark attendance")
    ELSE [rq EXCEPT !.pc = "findSession"]

BeginRecordAttendance(r, in) ==
    /\ Free(r)
    /\ in.op = "recordAttendance"
    /\ LET a == authenticate(in)
       IN req' = [req EXCEPT ![r] = IF a.pc = "done" THEN a ELSE recordAttendanceStart(a)]
    /\ UNCHANGED <<users, students, sessions, attendance, submitted, now, deviceKey, others>>

RecordFindSession(r) ==
    /\ req[r].op = "recordAttendance"
    /\ req[r].pc = "findSession"
    /\ LET rq == req[r]
           found == SessionById(rq.sessionId)
       IN req' = [req EXCEPT ![r] =
            IF found = {}
            THEN Respond(rq, 404, "Session not found")
            ELSE LET session == sessions[CHOOSE i \in found : TRUE] IN
                 IF ensureTeacherOrDevice(rq) = "teacher" /\ hasTeacher(rq)
                 THEN IF Teacher[users[rq.user].teacherId].schoolId # session.schoolId
                      THEN Respond(rq, 403, "Forbidden")
                      ELSE [rq EXCEPT !.pc = "homeroom"]
                 ELSE [rq EXCEPT !.pc = "tx"]]
    /\ UNCHANGED <<users, students, sessions, attendance, submitted, now, deviceKey, others>>

(* AttendanceSession rows are never rewritten or deleted, so the row read  *)
(* again here is the row RecordFindSession selected                        *)
RecordHomeroom(r) ==
    /\ req[r].op = "recordAttendance"
    /\ req[r].pc = "homeroom"
    /\ LET rq == req[r]
           session == sessions[CHOOSE i \in SessionById(rq.sessionId) : TRUE]
           ownsClassroom == isHomeroomTeacherForClassroom(users[rq.user].teacherId, session.classroomId)
       IN req' = [req EXCEPT ![r] =
            IF ~ownsClassroom
            THEN Respond(rq, 403, "Teachers can only manage attendance for their homerooms")
            ELSE IF ~isWithinEditWindow(session.sessionDate)
            THEN Respond(rq, 403, "Attendance can only be edited within 24 hours of the session date")
            ELSE [rq EXCEPT !.pc = "tx"]]
    /\ UNCHANGED <<users, students, sessions, attendance, submitted, now, deviceKey, others>>

(* as RecordTransaction, the upserts made one by one outside a transaction: *)
(* those before the first that fails stay                                  *)
RecordTransactionAutocommit(r) ==
    /\ req[r].op = "recordAttendance"
    /\ req[r].pc = "tx"
    /\ LET rq == req[r]
           failing == {i \in 1..Len(rq.entries) : ~upsertAllowed(rq.entries[i])}
           first == CHOOSE i \in failing : \A j \in failing : i <= j
       IN IF failing = {}
          THEN /\ attendance' = upsertAll(attendance, rq.sessionId, rq.entries)
               /\ submitted' = Submit(submitted, rq.sessionId, rq.entries)
               /\ req' = [req EXCEPT ![r] = Respond(rq, 200, "Attendance synced")]
          ELSE /\ attendance' = upsertAll(attendance, rq.sessionId,
                                          SubSeq(rq.entries, 1, first - 1))
               /\ submitted' = submitted
               /\ req' = [req EXCEPT ![r] = Respond(rq, 500, "Internal server error")]
    /\ UNCHANGED <<users, students, sessions, now, deviceKey, others>>

(* prisma.$transaction: all upserts of the batch or none *)
RecordTransaction(r) ==
    /\ req[r].op = "recordAttendance"
    /\ req[r].pc = "tx"
    /\ LET rq == req[r] IN
       IF \A i \in 1..Len(rq.entries) : upsertAllowed(rq.entries[i])
       THEN /\ attendance' = upsertAll(attendance, rq.sessionId, rq.entries)
            /\ submitted' = Submit(submitted, rq.sessionId, rq.entries)
            /\ req' = [req EXCEPT ![r] = Respond(rq, 200, "Attendance synced")]
       ELSE /\ attendance' = attendance
            /\ submitted' = submitted
            /\ req' = [req EXCEPT ![r] = Respond(rq, 500, "Internal server error")]
    /\ UNCHANGED <<users, students, sessions, now, deviceKey, others>>

----------------------------------------------------------------------------
(* PATCH /core/students/:id *)

(* authenticate, then the route's authorizeRoles; pc = "next" when both let *)
(* the request through                                                     *)
guard(rq, roles) ==
    LET a == authenticate(rq) IN
    IF a.pc = "done" THEN a ELSE authorizeRoles(a, roles)

BeginUpdateStudent(r, in) ==
    /\ Free(r)
    /\ in.op = "updateStudent"
    /\ LET g == guard(in, {"ADMIN", "GOVERNMENT", "PRINCIPAL"})
       IN req' = [req EXCEPT ![r] = IF g.pc = "done" THEN g ELSE [g EXCEPT !.pc = "findStudent"]]
    /\ UNCHANGED <<users, students, sessions, attendance, submitted, now, deviceKey, others>>

UpdateStudentFind(r) ==
    /\ req[r].op = "updateStudent"
    /\ req[r].pc = "findStudent"
    /\ LET rq == req[r] IN
       req' = [req EXCEPT ![r] =
            IF rq.studentId \notin DOMAIN students
            THEN Respond(rq, 404, "Student not found")
            ELSE IF /\ users[rq.user].role = "PRINCIPAL"
                    /\ (users[rq.user].schoolId = 0
                        \/ users[rq.user].schoolId # students[rq.studentId].schoolId)
            THEN Respond(rq, 403, "Principals can only edit students in their own school")
            ELSE IF rq.classroomId # 0
            THEN [rq EXCEPT !.pc = "findClassroom"]
            ELSE [rq EXCEPT !.pc = "update"]]
    /\ UNCHANGED <<users, students, sessions, attendance, submitted, now, deviceKey, others>>

(* as UpdateStudentFindClassroom, the classroom's school not compared with *)
(* the student's                                                           *)
UpdateStudentFindClassroomAnySchool(r) ==
    /\ req[r].op = "updateStudent"
    /\ req[r].pc = "findClassroom"
    /\ LET rq == req[r] IN
       req' = [req EXCEPT ![r] =
            IF rq.classroomId \notin DOMAIN Classroom
            THEN Respond(rq, 404, "Classroom not found")
            ELSE [rq EXCEPT !.pc = "update"]]
    /\ UNCHANGED <<users, students, sessions, attendance, submitted, now, deviceKey, others>>

(* a student's schoolId is never rewritten, so existingStudent.schoolId is *)
(* the schoolId of the row as it is now                                    *)
UpdateStudentFindClassroom(r) ==
    /\ req[r].op = "updateStudent"
    /\ req[r].pc = "findClassroom"
    /\ LET rq == req[r] IN
       req' = [req EXCEPT ![r] =
            IF rq.classroomId \notin DOMAIN Classroom
            THEN Respond(rq, 404, "Classroom not found")
            ELSE IF Classroom[rq.classroomId].schoolId # students[rq.studentId].schoolId
            THEN Respond(rq, 400, "Cannot move student to a classroom in a different school")
            ELSE [rq EXCEPT !.pc = "update"]]
    /\ UNCHANGED <<users, students, sessions, attendance, submitted, now, deviceKey, others>>

(* Student_classTeacherId_fkey *)
classTeacherAllowed(teacherId) == teacherId = 0 \/ teacherId \in DOMAIN Teacher

updateData(row, rq) ==
    LET moved == IF rq.classroomId # 0
                 THEN [row EXCEPT !.classroomId = rq.classroomId,
                                  !.gradeLevel = Classroom[rq.classroomId].gradeLevel,
                                  !.sectionLabel = Classroom[rq.classroomId].sectionLabel]
                 ELSE row
    IN IF rq.setTeacher THEN [moved EXCEPT !.classTeacherId = rq.classTeacherId] ELSE moved

UpdateStudentWrite(r) ==
    /\ req[r].op = "updateStudent"
    /\ req[r].pc = "update"
    /\ LET rq == req[r] IN
       IF rq.setTeacher /\ ~classTeacherAllowed(rq.classTeacherId)
       THEN /\ students' = students
            /\ req' = [req EXCEPT ![r] = Respond(rq, 500, "Internal server error")]
       ELSE /\ students' = [students EXCEPT ![rq.studentId] = updateData(@, rq)]
            /\ req' = [req EXCEPT ![r] = Respond(rq, 200, "updated")]
    /\ UNCHANGED <<users, sessions, attendance, submitted, now, deviceKey, others>>

----------------------------------------------------------------------------
(* POST /auth/login: no access middleware; the finished slot keeps the     *)
(* credentials that were tried                                             *)

(* bcrypt.compare *)
compare(password, passwordHash) == Hash(password) = passwordHash

(* as loginResponse, the status of the user not looked at *)
loginResponseAnyStatus(rq) ==
    LET found == {u \in DOMAIN users : users[u].email = rq.email} IN
    IF found = {}
    THEN Respond(rq, 401, "Invalid credentials")
    ELSE LET u == CHOOSE u \in found : TRUE IN
         IF ~compare(rq.password, users[u].passwordHash)
         THEN Respond(rq, 401, "Invalid credentials")
         ELSE [Respond(rq, 200, "ok") EXCEPT !.token = u]

loginResponse(rq) ==
    LET found == {u \in DOMAIN users : users[u].email = rq.email} IN
    IF found = {}
    THEN Respond(rq, 401, "Invalid credentials")
    ELSE LET u == CHOOSE u \in found : TRUE IN
         IF ~compare(rq.password, users[u].passwordHash)
         THEN Respond(rq, 401, "Invalid credentials")
         ELSE IF users[u].status # "active"
         THEN Respond(rq, 403, "User is blocked")
         ELSE [Respond(rq, 200, "ok") EXCEPT !.token = u]

Login(r, in) ==
    /\ Free(r)
    /\ in.op = "login"
    /\ req' = [req EXCEPT ![r] =
                [loginResponse(in) EXCEPT !.email = in.email, !.password = in.password]]
    /\ UNCHANGED <<users, students, sessions, attendance, submitted, now, deviceKey, others>>

----------------------------------------------------------------------------
(* PATCH /auth/users/:id/status *)

BeginSetUserStatus(r, in) ==
    /\ Free(r)
    /\ in.op = "setUserStatus"
    /\ LET g == guard(in, {"ADMIN"})
       IN req' = [req EXCEPT ![r] = IF g.pc = "done" THEN g ELSE [g EXCEPT !.pc = "update"]]
    /\ UNCHANGED <<users, students, sessions, attendance, submitted, now, deviceKey, others>>

(* prisma.user.update throws when no row has the id *)
SetUserStatusUpdate(r) ==
    /\ req[r].op = "setUserStatus"
    /\ req[r].pc = "update"
    /\ LET rq == req[r] IN
       IF rq.targetId \in DOMAIN users
       THEN /\ users' = [users EXCEPT ![rq.targetId].status = rq.newStatus]
            /\ req' = [req EXCEPT ![r] = Respond(rq, 200, "updated")]
       ELSE /\ users' = users
            /\ req' = [req EXCEPT ![r] = Respond(rq, 500, "Internal server error")]
    /\ UNCHANGED <<students, sessions, attendance, submitted, now, deviceKey, others>>

----------------------------------------------------------------------------
(* GET /attendance/sessions/:sessionId *)

resolveTeacherClassroomAssociation(teacherId, classroomId) ==
    [homeroom |-> isHomeroomTeacherForClassroom(teacherId, classroomId),
     subject |-> \E i \in 1..Len(teacherSubjects) :
                    /\ teacherSubjects[i].teacherId = teacherId
                    /\ teacherSubjects[i].classroomId = classroomId]

BeginGetSessionDetail(r, in) ==
    /\ Free(r)
    /\ in.op = "getSessionDetail"
    /\ LET g == guard(in, {"ADMIN", "GOVERNMENT", "TEACHER", "PRINCIPAL"})
       IN req' = [req EXCEPT ![r] = IF g.pc = "done" THEN g ELSE [g EXCEPT !.pc = "findSession"]]
    /\ UNCHANGED <<users, students, sessions, attendance, submitted, now, deviceKey, others>>

(* findUnique, then ensureTeacherCanViewClassroom up to its own query; a   *)
(* caller who is no teacher is answered here, canEdit false                *)
DetailFindSession(r) ==
    /\ req[r].op = "getSessionDetail"
    /\ req[r].pc = "findSession"
    /\ LET rq == req[r]
           found == SessionById(rq.sessionId)
       IN req' = [req EXCEPT ![r] =
            IF found = {}
            THEN Respond(rq, 404, "Session not found")
            ELSE LET session == sessions[CHOOSE i \in found : TRUE] IN
                 IF users[rq.user].role = "TEACHER" /\ hasTeacher(rq)
                 THEN IF Teacher[users[rq.user].teacherId].schoolId
                            # Classroom[session.classroomId].schoolId
                      THEN Respond(rq, 403, "Forbidden")
                      ELSE [rq EXCEPT !.pc = "association"]
                 ELSE IF /\ users[rq.user].role = "PRINCIPAL"
                         /\ (users[rq.user].schoolId = 0
                             \/ users[rq.user].schoolId # Classroom[session.classroomId].schoolId)
                 THEN Respond(rq, 403, "Forbidden")
                 ELSE Respond(rq, 200, "ok")]
    /\ UNCHANGED <<users, students, sessions, attendance, submitted, now, deviceKey, others>>

DetailAssociation(r) ==
    /\ req[r].op = "getSessionDetail"
    /\ req[r].pc = "association"
    /\ LET rq == req[r]
           session == sessions[CHOOSE i \in SessionById(rq.sessionId) : TRUE]
           association == resolveTeacherClassroomAssociation(users[rq.user].teacherId,
                                                              session.classroomId)
       IN req' = [req EXCEPT ![r] =
            IF ~association.homeroom /\ ~association.subject
            THEN Respond(rq, 403, "Teachers can only view classrooms they are assigned to")
            ELSE [Respond(rq, 200, "ok") EXCEPT
                    !.canEdit = association.homeroom /\ now <= computeEditDeadline(session.sessionDate)]]
    /\ UNCHANGED <<users, students, sessions, attendance, submitted, now, deviceKey, others>>

----------------------------------------------------------------------------
(* POST /core/students *)

InFlight(op) == Cardinality({r \in Slots : req[r].op = op /\ ~Free(r)})

BeginCreateStudent(r, in) ==
    /\ Free(r)
    /\ in.op = "createStudent"
    /\ Cardinality(DOMAIN students) + InFlight("createStudent") < MaxStudents
    /\ LET g == guard(in, {"ADMIN", "GOVERNMENT", "PRINCIPAL"})
       IN req' = [req EXCEPT ![r] =
            IF g.pc = "done"
            THEN g
            ELSE IF users[g.user].role = "PRINCIPAL" /\ users[g.user].schoolId = 0
            THEN Respond(g, 400, "Principal account must be linked to a school")
            ELSE IF users[g.user].role = "PRINCIPAL" /\ g.schoolId # users[g.user].schoolId
            THEN Respond(g, 403, "Principals can only create students in their own school")
            ELSE [g EXCEPT !.pc = "findClassroom"]]
    /\ UNCHANGED <<users, students, sessions, attendance, submitted, now, deviceKey, others>>

CreateStudentFindClassroom(r) ==
    /\ req[r].op = "createStudent"
    /\ req[r].pc = "findClassroom"
    /\ LET rq == req[r] IN
       req' = [req EXCEPT ![r] =
            IF rq.classroomId \notin DOMAIN Classroom
            THEN Respond(rq, 404, "Classroom not found")
            ELSE IF Classroom[rq.classroomId].schoolId # rq.schoolId
            THEN Respond(rq, 400, "Classroom does not belong to the specified school")
            ELSE [rq EXCEPT !.pc = "create"]]
    /\ UNCHANGED <<users, students, sessions, attendance, submitted, now, deviceKey, others>>

CreateStudentInsert(r) ==
    /\ req[r].op = "createStudent"
    /\ req[r].pc = "create"
    /\ LET rq == req[r]
           id == Cardinality(DOMAIN students) + 1
           row == [schoolId |-> rq.schoolId,
                   classroomId |-> rq.classroomId,
                   classTeacherId |-> rq.classTeacherId,
                   gradeLevel |-> Classroom[rq.classroomId].gradeLevel,
                   sectionLabel |-> Classroom[rq.classroomId].sectionLabel]
       IN IF classTeacherAllowed(rq.classTeacherId)
          THEN /\ students' = students @@ (id :> row)
               /\ req' = [req EXCEPT ![r] = Respond(rq, 201, "created")]
          ELSE /\ students' = students
               /\ req' = [req EXCEPT ![r] = Respond(rq, 500, "Internal server error")]
    /\ UNCHANGED <<users, sessions, attendance, submitted, now, deviceKey, others>>

----------------------------------------------------------------------------
(* POST /auth/users *)

(* the refinement of createUserSchema *)
createUserSchema(body) ==
    /\ body.newRole = "STUDENT" => body.studentId # 0
    /\ body.newRole = "TEACHER" => body.teacherId # 0
    /\ body.newRole = "PRINCIPAL" => body.schoolId # 0

(* rest.schoolId = req.user.schoolId, then on to the insert *)
scoped(rq) == [rq EXCEPT !.schoolId = users[rq.user].schoolId, !.pc = "create"]

createUserStart(rq) ==
    IF users[rq.user].role = "PRINCIPAL"
    THEN IF users[rq.user].schoolId = 0
         THEN Respond(rq, 400, "Principal account must be linked to a school")
         ELSE IF rq.newRole # "STUDENT" /\ rq.newRole # "TEACHER"
         THEN Respond(rq, 403, "Principals can only create STUDENT and TEACHER user accounts")
         ELSE IF rq.schoolId # 0 /\ rq.schoolId # users[rq.user].schoolId
         THEN Respond(rq, 403, "Principals can only create users for their own school")
         ELSE IF rq.studentId # 0
         THEN [rq EXCEPT !.pc = "findStudent"]
         ELSE IF rq.teacherId # 0
         THEN [rq EXCEPT !.pc = "findTeacher"]
         ELSE scoped(rq)
    ELSE [rq EXCEPT !.pc = "create"]

BeginCreateUser(r, in) ==
    /\ Free(r)
    /\ in.op = "createUser"
    /\ LET g == guard(in, {"ADMIN", "PRINCIPAL"})
       IN req' = [req EXCEPT ![r] = IF g.pc = "done" THEN g ELSE createUserStart(g)]
    /\ UNCHANGED <<core, others>>

CreateUserFindStudent(r) ==
    /\ req[r].op = "createUser"
    /\ req[r].pc = "findStudent"
    /\ LET rq == req[r] IN
       req' = [req EXCEPT ![r] =
            IF rq.studentId \notin DOMAIN students
            THEN Respond(rq, 404, "Student not found")
            ELSE IF students[rq.studentId].schoolId # users[rq.user].schoolId
            THEN Respond(rq, 403, "Cannot create user for student from another school")
            ELSE IF rq.teacherId # 0
            THEN [rq EXCEPT !.pc = "findTeacher"]
            ELSE scoped(rq)]
    /\ UNCHANGED <<core, others>>

(* as CreateUserFindTeacher, the school of the teacher not compared *)
CreateUserFindTeacherAnySchool(r) ==
    /\ req[r].op = "createUser"
    /\ req[r].pc = "findTeacher"
    /\ LET rq == req[r] IN
       req' = [req EXCEPT ![r] =
            IF rq.teacherId \notin DOMAIN Teacher
            THEN Respond(rq, 404, "Teacher not found")
            ELSE scoped(rq)]
    /\ UNCHANGED <<core, others>>

CreateUserFindTeacher(r) ==
    /\ req[r].op = "createUser"
    /\ req[r].pc = "findTeacher"
    /\ LET rq == req[r] IN
       req' = [req EXCEPT ![r] =
            IF rq.teacherId \notin DOMAIN Teacher
            THEN Respond(rq, 404, "Teacher not found")
            ELSE IF Teacher[rq.teacherId].schoolId # users[rq.user].schoolId
            THEN Respond(rq, 403, "Cannot create user for teacher from another school")
            ELSE scoped(rq)]
    /\ UNCHANGED <<core, others>>

(* User.email is unique: login looks a user up by it *)
emailTaken(email) == \E u \in DOMAIN users : users[u].email = email

(* foreign keys of User to School, Student and Teacher *)
userLinksAllowed(rq) ==
    /\ rq.schoolId = 0 \/ rq.schoolId \in SchoolIds
    /\ rq.studentId = 0 \/ rq.studentId \in DOMAIN students
    /\ rq.teacherId = 0 \/ rq.teacherId \in DOMAIN Teacher

CreateUserInsert(r) ==
    /\ req[r].op = "createUser"
    /\ req[r].pc = "create"
    /\ LET rq == req[r]
           id == Cardinality(DOMAIN users) + 1
           row == [email |-> rq.email, passwordHash |-> Hash(rq.password),
                   role |-> rq.newRole, status |-> "active", schoolId |-> rq.schoolId,
                   teacherId |-> rq.teacherId, studentId |-> rq.studentId]
       IN IF ~emailTaken(rq.email) /\ userLinksAllowed(rq)
          THEN /\ users' = users @@ (id :> row)
               /\ req' = [req EXCEPT ![r] = Respond(rq, 201, "created")]
          ELSE /\ users' = users
               /\ req' = [req EXCEPT ![r] = Respond(rq, 500, "Internal server error")]
    /\ UNCHANGED <<students, sessions, attendance, submitted, now, deviceKey, others>>

----------------------------------------------------------------------------
(* GET /core/students/:id *)

AllRoles == {"ADMIN", "GOVERNMENT", "TEACHER", "PRINCIPAL", "STUDENT"}

(* the response carrying the data of one student *)
RespondData(rq, studentId) ==
    [Respond(rq, 200, "ok") EXCEPT !.studentId = rq.studentId, !.data = studentId]

(* a refusal by a handler of a read route; the slot keeps the id asked for *)
Refuse(rq, code, msg) == [Respond(rq, code, msg) EXCEPT !.studentId = rq.studentId]

BeginGetStudent(r, in) ==
    /\ Free(r)
    /\ in.op = "getStudent"
    /\ LET g == guard(in, AllRoles)
       IN req' = [req EXCEPT ![r] = IF g.pc = "done" THEN g ELSE [g EXCEPT !.pc = "findStudent"]]
    /\ UNCHANGED <<core, others>>

GetStudentFind(r) ==
    /\ req[r].op = "getStudent"
    /\ req[r].pc = "findStudent"
    /\ LET rq == req[r]
           me == users[rq.user]
       IN req' = [req EXCEPT ![r] =
            IF rq.studentId \notin DOMAIN students
            THEN Refuse(rq, 404, "Student not found")
            ELSE IF me.role = "STUDENT" /\ me.studentId # rq.studentId
            THEN Refuse(rq, 403, "Forbidden")
            ELSE IF /\ me.role = "TEACHER"
                    /\ (~hasTeacher(rq)
                        \/ Teacher[me.teacherId].schoolId # students[rq.studentId].schoolId)
            THEN Refuse(rq, 403, "Forbidden")
            ELSE IF me.role = "TEACHER" /\ me.teacherId # students[rq.studentId].classTeacherId
            THEN Refuse(rq, 403, "Teachers can only view their homeroom students")
            ELSE IF /\ me.role = "PRINCIPAL"
                    /\ (me.schoolId = 0 \/ me.schoolId # students[rq.studentId].schoolId)
            THEN Refuse(rq, 403, "Forbidden")
            ELSE RespondData(rq, rq.studentId)]
    /\ UNCHANGED <<core, others>>

----------------------------------------------------------------------------
(* GET /attendance/students/:studentId *)

(* as attendanceHistoryStart, a student's own id not compared *)
attendanceHistoryStartAnyStudent(rq) ==
    LET me == users[rq.user] IN
    IF me.role = "TEACHER" /\ hasTeacher(rq)
    THEN [rq EXCEPT !.pc = "teacherScope"]
    ELSE IF me.role = "PRINCIPAL" /\ me.schoolId # 0
    THEN [rq EXCEPT !.pc = "principalScope"]
    ELSE [rq EXCEPT !.pc = "findMany"]

attendanceHistoryStart(rq) ==
    LET me == users[rq.user] IN
    IF me.role = "STUDENT" /\ me.studentId # rq.studentId
    THEN Refuse(rq, 403, "Forbidden")
    ELSE IF me.role = "TEACHER" /\ hasTeacher(rq)
    THEN [rq EXCEPT !.pc = "teacherScope"]
    ELSE IF me.role = "PRINCIPAL" /\ me.schoolId # 0
    THEN [rq EXCEPT !.pc = "principalScope"]
    ELSE [rq EXCEPT !.pc = "findMany"]

BeginGetStudentAttendance(r, in) ==
    /\ Free(r)
    /\ in.op = "getStudentAttendance"
    /\ LET g == guard(in, AllRoles)
       IN req' = [req EXCEPT ![r] = IF g.pc = "done" THEN g ELSE attendanceHistoryStart(g)]
    /\ UNCHANGED <<core, others>>

HistoryTeacherScope(r) ==
    /\ req[r].op = "getStudentAttendance"
    /\ req[r].pc = "teacherScope"
    /\ LET rq == req[r] IN
       req' = [req EXCEPT ![r] =
            IF rq.studentId \notin DOMAIN students
            THEN Refuse(rq, 404, "Student not found")
            ELSE IF Teacher[users[rq.user].teacherId].schoolId # students[rq.studentId].schoolId
            THEN Refuse(rq, 403, "Forbidden")
            ELSE [rq EXCEPT !.pc = "findMany"]]
    /\ UNCHANGED <<core, others>>

HistoryPrincipalScope(r) ==
    /\ req[r].op = "getStudentAttendance"
    /\ req[r].pc = "principalScope"
    /\ LET rq == req[r] IN
       req' = [req EXCEPT ![r] =
            IF rq.studentId \notin DOMAIN students
            THEN Refuse(rq, 404, "Student not found")
            ELSE IF students[rq.studentId].schoolId # users[rq.user].schoolId
            THEN Refuse(rq, 403, "Forbidden")
            ELSE [rq EXCEPT !.pc = "findMany"]]
    /\ UNCHANGED <<core, others>>

(* prisma.studentAttendance.findMany: the rows of the student, none when   *)
(* no such student exists                                                  *)
HistoryFindMany(r) ==
    /\ req[r].op = "getStudentAttendance"
    /\ req[r].pc = "findMany"
    /\ req' = [req EXCEPT ![r] = RespondData(req[r], req[r].studentId)]
    /\ UNCHANGED <<core, others>>

----------------------------------------------------------------------------
(* GET /attendance/students/summary?studentId=  (hour 0 of the clock is    *)
(* the midnight that starts a Monday)                                      *)

HoursPerWeek == 168

(* the sessionDate of the session an attendance row belongs to *)
SessionDateOf(row) ==
    sessions[CHOOSE i \in SessionById(row.attendanceSessionId) : TRUE].sessionDate

(* Number((present / total).toFixed(2)), in hundredths *)
toFixed2(present, total) == (200 * present + total) \div (2 * total)

(* summarize: the student's rows whose session date is in dates, grouped   *)
(* by status                                                               *)
summarize(studentId, dates) ==
    LET rows == {i \in 1..Len(attendance) :
                    /\ attendance[i].studentId = studentId
                    /\ SessionDateOf(attendance[i]) \in dates}
        count(status) == Cardinality({i \in rows : attendance[i].status = status})
        total == Cardinality(rows)
    IN [total |-> total,
        present |-> count("present"),
        absent |-> count("absent"),
        late |-> count("late"),
        excused |-> count("excused"),
        attendanceRate |-> IF total # 0 THEN toFixed2(count("present"), total) ELSE 0]

BeginGetStudentSummary(r, in) ==
    /\ Free(r)
    /\ in.op = "getStudentSummary"
    /\ LET g == guard(in, AllRoles)
       IN req' = [req EXCEPT ![r] =
            IF g.pc = "done"
            THEN g
            ELSE IF g.studentId = 0
            THEN Respond(g, 400, "Provide studentId or phone query param")
            ELSE [g EXCEPT !.pc = "findStudent"]]
    /\ UNCHANGED <<core, others>>

SummaryFind(r) ==
    /\ req[r].op = "getStudentSummary"
    /\ req[r].pc = "findStudent"
    /\ LET rq == req[r]
           me == users[rq.user]
       IN req' = [req EXCEPT ![r] =
            IF rq.studentId \notin DOMAIN students
            THEN Refuse(rq, 404, "Student not found")
            ELSE IF me.role = "STUDENT" /\ me.studentId # rq.studentId
            THEN Refuse(rq, 403, "Forbidden")
            ELSE IF /\ me.role = "TEACHER"
                    /\ hasTeacher(rq)
                    /\ Teacher[me.teacherId].schoolId # students[rq.studentId].schoolId
            THEN Refuse(rq, 403, "Forbidden")
            ELSE IF me.role = "PRINCIPAL" /\ me.schoolId # students[rq.studentId].schoolId
            THEN Refuse(rq, 403, "Forbidden")
            ELSE [rq EXCEPT !.pc = "today", !.at = now]]
    /\ UNCHANGED <<core, others>>

(* as SummaryToday, a session dated at midnight itself left out *)
SummaryTodayAfterMidnight(r) ==
    /\ req[r].op = "getStudentSummary"
    /\ req[r].pc = "today"
    /\ LET rq == req[r]
           startOfToday == rq.at - (rq.at % HoursPerDay)
       IN req' = [req EXCEPT ![r] =
            [rq EXCEPT !.pc = "thisWeek",
                       !.summary.today =
                            summarize(rq.studentId,
                                      (startOfToday + 1)..(startOfToday + HoursPerDay - 1))]]
    /\ UNCHANGED <<core, others>>

SummaryToday(r) ==
    /\ req[r].op = "getStudentSummary"
    /\ req[r].pc = "today"
    /\ LET rq == req[r]
           startOfToday == rq.at - (rq.at % HoursPerDay)
       IN req' = [req EXCEPT ![r] =
            [rq EXCEPT !.pc = "thisWeek",
                       !.summary.today = summarize(rq.studentId, {startOfToday})]]
    /\ UNCHANGED <<core, others>>

SummaryThisWeek(r) ==
    /\ req[r].op = "getStudentSummary"
    /\ req[r].pc = "thisWeek"
    /\ LET rq == req[r]
           startOfWeek == rq.at - (rq.at % HoursPerWeek)
           endOfToday == rq.at - (rq.at % HoursPerDay) + HoursPerDay - 1
       IN req' = [req EXCEPT ![r] =
            [rq EXCEPT !.pc = "overall",
                       !.summary.thisWeek = summarize(rq.studentId,
                                                      startOfWeek..endOfToday)]]
    /\ UNCHANGED <<core, others>>

SummaryOverall(r) ==
    /\ req[r].op = "getStudentSummary"
    /\ req[r].pc = "overall"
    /\ LET rq == req[r]
           dates == {sessions[i].sessionDate : i \in 1..Len(sessions)}
       IN req' = [req EXCEPT ![r] =
            [RespondData(rq, rq.studentId) EXCEPT
                !.at = rq.at,
                !.summary = [rq.summary EXCEPT !.overall = summarize(rq.studentId, dates)]]]
    /\ UNCHANGED <<core, others>>

----------------------------------------------------------------------------
(* POST /enrollment/student-groups/:groupId/members *)

StudentGroup ==
    (1 :> [schoolId |-> 1]) @@
    (2 :> [schoolId |-> 2])

MemberRows(rows, groupId, studentId) ==
    {i \in 1..Len(rows) : rows[i].groupId = groupId /\ rows[i].studentId = studentId}

(* as upsertMember, the update writing addedBy *)
upsertMemberOverwrites(rows, groupId, studentId, addedBy) ==
    IF MemberRows(rows, groupId, studentId) # {}
    THEN [i \in 1..Len(rows) |->
            IF i \in MemberRows(rows, groupId, studentId)
            THEN [rows[i] EXCEPT !.addedBy = addedBy]
            ELSE rows[i]]
    ELSE Append(rows, [groupId |-> groupId, studentId |-> studentId, addedBy |-> addedBy])

(* tx.studentGroupMember.upsert with update: {} *)
upsertMember(rows, groupId, studentId, addedBy) ==
    IF MemberRows(rows, groupId, studentId) # {}
    THEN rows
    ELSE Append(rows, [groupId |-> groupId, studentId |-> studentId, addedBy |-> addedBy])

RECURSIVE upsertMembers(_, _, _, _)
upsertMembers(rows, groupId, studentIds, addedBy) ==
    IF studentIds = <<>>
    THEN rows
    ELSE upsertMembers(upsertMember(rows, groupId, Head(studentIds), addedBy),
                       groupId, Tail(studentIds), addedBy)

(* foreign keys of StudentGroupMember to StudentGroup and Student *)
memberAllowed(groupId, studentId) ==
    groupId \in DOMAIN StudentGroup /\ studentId \in DOMAIN students

BeginAddGroupMembers(r, in) ==
    /\ Free(r)
    /\ in.op = "addGroupMembers"
    /\ LET g == guard(in, {"ADMIN", "GOVERNMENT", "TEACHER", "PRINCIPAL"})
       IN req' = [req EXCEPT ![r] =
            IF g.pc = "done"
            THEN g
            ELSE IF (users[g.user].role = "TEACHER" /\ hasTeacher(g))
                    \/ users[g.user].role = "PRINCIPAL"
            THEN [g EXCEPT !.pc = "findGroup"]
            ELSE [g EXCEPT !.pc = "tx"]]
    /\ UNCHANGED <<core, others>>

AddGroupMembersFindGroup(r) ==
    /\ req[r].op = "addGroupMembers"
    /\ req[r].pc = "findGroup"
    /\ LET rq == req[r]
           me == users[rq.user]
           school == IF me.role = "TEACHER" THEN Teacher[me.teacherId].schoolId ELSE me.schoolId
       IN req' = [req EXCEPT ![r] =
            IF rq.groupId \notin DOMAIN StudentGroup
            THEN Respond(rq, 404, "Group not found")
            ELSE IF school = 0 \/ StudentGroup[rq.groupId].schoolId # school
            THEN Respond(rq, 403, "Forbidden")
            ELSE [rq EXCEPT !.pc = "tx"]]
    /\ UNCHANGED <<core, others>>

(* the finished slot keeps what was asked for *)
AddGroupMembersTransaction(r) ==
    /\ req[r].op = "addGroupMembers"
    /\ req[r].pc = "tx"
    /\ LET rq == req[r]
           asked(resp) == [resp EXCEPT !.groupId = rq.groupId, !.studentIds = rq.studentIds,
                                       !.addedBy = rq.addedBy]
       IN IF \A i \in 1..Len(rq.studentIds) : memberAllowed(rq.groupId, rq.studentIds[i])
          THEN /\ groupMembers' = upsertMembers(groupMembers, rq.groupId, rq.studentIds,
                                                rq.addedBy)
               /\ req' = [req EXCEPT ![r] = asked(Respond(rq, 200, "Members synced"))]
          ELSE /\ groupMembers' = groupMembers
               /\ req' = [req EXCEPT ![r] = asked(Respond(rq, 500, "Internal server error"))]
    /\ UNCHANGED <<core, teacherSubjects, notifications, notificationTargets, timetable>>

----------------------------------------------------------------------------
(* POST /enrollment/teacher-subjects *)

Subject == {1}

(* as existingAssignments, the start date compared for inequality *)
existingAssignmentsOtherStart(rows, body) ==
    {i \in 1..Len(rows) :
        /\ rows[i].teacherId = body.teacherId
        /\ rows[i].subjectId = body.subjectId
        /\ (body.classroomId # 0 => rows[i].classroomId = body.classroomId)
        /\ rows[i].startDate # body.startDate}

(* the rows the where clause of findFirst selects; a classroomId the body  *)
(* leaves out is undefined in the clause and filters nothing               *)
existingAssignments(rows, body) ==
    {i \in 1..Len(rows) :
        /\ rows[i].teacherId = body.teacherId
        /\ rows[i].subjectId = body.subjectId
        /\ (body.classroomId # 0 => rows[i].classroomId = body.classroomId)
        /\ rows[i].startDate = body.startDate}

Least(S) == CHOOSE i \in S : \A j \in S : i <= j

(* foreign keys of TeacherSubject to Teacher, Subject and Classroom *)
assignmentAllowed(body) ==
    /\ body.teacherId \in DOMAIN Teacher
    /\ body.subjectId \in Subject
    /\ body.classroomId \in DOMAIN Classroom \cup {0}

(* the finished slot keeps the tuple asked for *)
AssignmentResponse(rq, code, msg, id) ==
    [Respond(rq, code, msg) EXCEPT !.teacherId = rq.teacherId, !.subjectId = rq.subjectId,
                                   !.classroomId = rq.classroomId,
                                   !.startDate = rq.startDate, !.data = id]

BeginAssignTeacherSubject(r, in) ==
    /\ Free(r)
    /\ in.op = "assignTeacherSubject"
    /\ LET g == guard(in, {"ADMIN", "GOVERNMENT", "TEACHER", "PRINCIPAL"})
       IN req' = [req EXCEPT ![r] =
            IF g.pc = "done"
            THEN g
            ELSE IF users[g.user].role = "TEACHER" /\ users[g.user].teacherId # g.teacherId
            THEN Respond(g, 403, "Teachers can only manage their own subjects")
            ELSE IF users[g.user].role = "PRINCIPAL"
            THEN IF users[g.user].schoolId = 0
                 THEN Respond(g, 400, "Principal account must be linked to a school")
                 ELSE [g EXCEPT !.pc = "findTeacher"]
            ELSE [g EXCEPT !.pc = "findExisting"]]
    /\ UNCHANGED <<core, others>>

AssignTeacherSubjectFindTeacher(r) ==
    /\ req[r].op = "assignTeacherSubject"
    /\ req[r].pc = "findTeacher"
    /\ LET rq == req[r] IN
       req' = [req EXCEPT ![r] =
            IF \/ rq.teacherId \notin DOMAIN Teacher
               \/ Teacher[rq.teacherId].schoolId # users[rq.user].schoolId
            THEN Respond(rq, 403, "Forbidden")
            ELSE [rq EXCEPT !.pc = "findExisting"]]
    /\ UNCHANGED <<core, others>>

AssignTeacherSubjectFindExisting(r) ==
    /\ req[r].op = "assignTeacherSubject"
    /\ req[r].pc = "findExisting"
    /\ LET rq == req[r]
           existing == existingAssignments(teacherSubjects, rq)
       IN req' = [req EXCEPT ![r] =
            IF existing # {}
            THEN AssignmentResponse(rq, 409,
                    "This teacher is already assigned to this subject in this classroom with the same start date",
                    teacherSubjects[Least(existing)].id)
            ELSE [rq EXCEPT !.pc = "create"]]
    /\ UNCHANGED <<core, others>>

AssignTeacherSubjectCreate(r) ==
    /\ req[r].op = "assignTeacherSubject"
    /\ req[r].pc = "create"
    /\ LET rq == req[r]
           id == Len(teacherSubjects) + 1
       IN IF assignmentAllowed(rq)
          THEN /\ teacherSubjects' = Append(teacherSubjects,
                    [id |-> id, teacherId |-> rq.teacherId, subjectId |-> rq.subjectId,
                     classroomId |-> rq.classroomId, startDate |-> rq.startDate])
               /\ req' = [req EXCEPT ![r] = AssignmentResponse(rq, 201, "created", id)]
          ELSE /\ teacherSubjects' = teacherSubjects
               /\ req' = [req EXCEPT ![r] =
                    AssignmentResponse(rq, 500, "Internal server error", 0)]
    /\ UNCHANGED <<core, groupMembers, notifications, notificationTargets, timetable>>

----------------------------------------------------------------------------
(* POST /communications/notifications *)

School == {1, 2}

MaxNotifications == 2

createNotificationSchema(body) ==
    \/ body.isPublic
    \/ body.studentIds # <<>>
    \/ body.studentGroupIds # <<>>
    \/ body.teacherIds # <<>>
    \/ body.classroomIds # <<>>

buildRows(ids, targetType, notificationId) ==
    [i \in 1..Len(ids) |->
        [notificationId |-> notificationId, targetType |-> targetType, targetId |-> ids[i]]]

targetRows(rq, notificationId) ==
    buildRows(rq.studentIds, "student", notificationId)
    \o buildRows(rq.studentGroupIds, "student_group", notificationId)
    \o buildRows(rq.teacherIds, "teacher", notificationId)
    \o buildRows(rq.classroomIds, "classroom", notificationId)

(* as transactionCreate, the row written outside any transaction *)
transactionCreateAutocommit(committed, pending, row) ==
    [committed |-> Append(committed, row), pending |-> pending]

(* tx.notification.create inside prisma.$transaction: the row is pending   *)
(* until the callback returns                                              *)
transactionCreate(committed, pending, row) ==
    [committed |-> committed, pending |-> Append(pending, row)]

(* foreign key of Notification to School *)
notificationAllowed(rq) == rq.schoolId \in School

BeginCreateNotification(r, in) ==
    /\ Free(r)
    /\ in.op = "createNotification"
    /\ createNotificationSchema(in)
    /\ Len(notifications) < MaxNotifications
    /\ LET g == guard(in, {"ADMIN", "GOVERNMENT", "TEACHER", "PRINCIPAL"})
       IN req' = [req EXCEPT ![r] =
            IF g.pc = "done"
            THEN g
            ELSE IF /\ users[g.user].role = "TEACHER"
                    /\ hasTeacher(g)
                    /\ Teacher[users[g.user].teacherId].schoolId # g.schoolId
            THEN Respond(g, 403, "Forbidden")
            ELSE IF users[g.user].role = "PRINCIPAL" /\ users[g.user].schoolId # g.schoolId
            THEN Respond(g, 403, "Forbidden")
            ELSE [g EXCEPT !.pc = "create"]]
    /\ UNCHANGED <<core, others>>

(* the finished slot keeps the school and the buckets asked for *)
NotificationResponse(rq, code, msg, count) ==
    [Respond(rq, code, msg) EXCEPT !.schoolId = rq.schoolId, !.studentIds = rq.studentIds,
                                   !.studentGroupIds = rq.studentGroupIds,
                                   !.teacherIds = rq.teacherIds,
                                   !.classroomIds = rq.classroomIds, !.data = count]

CreateNotificationCreate(r) ==
    /\ req[r].op = "createNotification"
    /\ req[r].pc = "create"
    /\ LET rq == req[r]
           created == [id |-> Len(notifications) + 1, schoolId |-> rq.schoolId,
                       isPublic |-> rq.isPublic, activeFrom |-> now]
           written == transactionCreate(notifications, rq.pending, created)
       IN IF notificationAllowed(rq)
          THEN /\ notifications' = written.committed
               /\ req' = [req EXCEPT ![r] = [rq EXCEPT !.pc = "targets",
                                                       !.pending = written.pending,
                                                       !.data = created.id]]
          ELSE /\ notifications' = notifications
               /\ req' = [req EXCEPT ![r] =
                    NotificationResponse(rq, 500, "Internal server error", 0)]
    /\ UNCHANGED <<core, groupMembers, teacherSubjects, notificationTargets, timetable>>

(* createMany and the end of the transaction: it commits the pending       *)
(* notice with the target rows, or the database fails and it rolls back    *)
CreateNotificationTargets(r) ==
    /\ req[r].op = "createNotification"
    /\ req[r].pc = "targets"
    /\ LET rq == req[r]
           rows == targetRows(rq, rq.data)
       IN \E ok \in BOOLEAN :
            IF ok \/ rows = <<>>
            THEN /\ notifications' = notifications \o rq.pending
                 /\ notificationTargets' = notificationTargets \o rows
                 /\ req' = [req EXCEPT ![r] =
                        NotificationResponse(rq, 201, "created", Len(rows))]
            ELSE /\ notifications' = notifications
                 /\ notificationTargets' = notificationTargets
                 /\ req' = [req EXCEPT ![r] =
                        NotificationResponse(rq, 500, "Internal server error", 0)]
    /\ UNCHANGED <<core, groupMembers, teacherSubjects, timetable>>

----------------------------------------------------------------------------
(* PUT /timetables/classrooms/:classroomId *)

(* as hasDuplicateSlots, only neighbouring entries compared *)
hasDuplicateSlotsNeighbours(entries) ==
    \E i \in 1..Len(entries) - 1 :
        /\ entries[i].weekDay = entries[i + 1].weekDay
        /\ entries[i].period = entries[i + 1].period

(* two entries of the batch have the same (weekDay, period) *)
hasDuplicateSlots(entries) ==
    \E i, j \in 1..Len(entries) :
        /\ i # j
        /\ entries[i].weekDay = entries[j].weekDay
        /\ entries[i].period = entries[j].period

timetableRows(classroomId, entries) ==
    {[classroomId |-> classroomId, weekDay |-> entries[i].weekDay,
      period |-> entries[i].period, label |-> entries[i].label] : i \in 1..Len(entries)}

(* UNIQUE INDEX ClassroomTimetable_classroomId_weekDay_period_key: the     *)
(* rows can be inserted one after the other into a table that holds kept   *)
timetableInsertAllowed(kept, classroomId, entries) ==
    /\ \A i, j \in 1..Len(entries) :
            (entries[i].weekDay = entries[j].weekDay /\ entries[i].period = entries[j].period)
            => i = j
    /\ \A i \in 1..Len(entries) : \A row \in kept :
            ~(/\ row.classroomId = classroomId
              /\ row.weekDay = entries[i].weekDay
              /\ row.period = entries[i].period)

(* the finished slot keeps the classroom and the batch asked for *)
TimetableResponse(rq, code, msg) ==
    [Respond(rq, code, msg) EXCEPT !.classroomId = rq.classroomId,
                                   !.timetableEntries = rq.timetableEntries]

BeginReplaceClassroomTimetable(r, in) ==
    /\ Free(r)
    /\ in.op = "replaceClassroomTimetable"
    /\ LET g == guard(in, {"ADMIN", "PRINCIPAL"})
       IN req' = [req EXCEPT ![r] =
            IF g.pc = "done"
            THEN g
            ELSE IF hasDuplicateSlots(g.timetableEntries)
            THEN TimetableResponse(g, 400, "Duplicate weekDay/period entries")
            ELSE [g EXCEPT !.pc = "findClassroom"]]
    /\ UNCHANGED <<core, others>>

ReplaceTimetableFindClassroom(r) ==
    /\ req[r].op = "replaceClassroomTimetable"
    /\ req[r].pc = "findClassroom"
    /\ LET rq == req[r] IN
       req' = [req EXCEPT ![r] =
            IF rq.classroomId \notin DOMAIN Classroom
            THEN TimetableResponse(rq, 404, "Classroom not found")
            ELSE IF /\ users[rq.user].role = "PRINCIPAL"
                    /\ users[rq.user].schoolId # Classroom[rq.classroomId].schoolId
            THEN TimetableResponse(rq, 403, "Forbidden")
            ELSE [rq EXCEPT !.pc = "replace"]]
    /\ UNCHANGED <<core, others>>

(* one transaction: the classroom's rows are deleted and the batch is      *)
(* inserted; an insert the unique index refuses rolls both back            *)
ReplaceTimetableTransaction(r) ==
    /\ req[r].op = "replaceClassroomTimetable"
    /\ req[r].pc = "replace"
    /\ LET rq == req[r]
           kept == {row \in timetable : row.classroomId # rq.classroomId}
       IN IF timetableInsertAllowed(kept, rq.classroomId, rq.timetableEntries)
          THEN /\ timetable' = kept \cup timetableRows(rq.classroomId, rq.timetableEntries)
               /\ req' = [req EXCEPT ![r] = TimetableResponse(rq, 200, "ok")]
          ELSE /\ timetable' = timetable
               /\ req' = [req EXCEPT ![r] =
                    TimetableResponse(rq, 500, "Internal server error")]
    /\ UNCHANGED <<core, groupMembers, teacherSubjects, notifications, notificationTargets>>

----------------------------------------------------------------------------
(* GET /attendance/classrooms/:classroomId/sessions,                       *)
(* GET /attendance/classrooms/:classroomId/summary and                     *)
(* GET /teachers/me/classrooms/:classroomId/students: the three handlers   *)
(* find the classroom, scope the caller and answer with one query each;    *)
(* the finished slot keeps the classroom asked for, canEdit is the         *)
(* roster's canEditAttendance and payload the sessions or students listed  *)

BeginClassroomRead(r, in) ==
    /\ Free(r)
    /\ in.op \in {"getClassroomSessions", "getClassroomSummary", "getClassroomStudents"}
    /\ LET g == guard(in, IF in.op = "getClassroomStudents"
                          THEN {"TEACHER"}
                          ELSE {"ADMIN", "GOVERNMENT", "TEACHER", "PRINCIPAL"})
       IN req' = [req EXCEPT ![r] =
            IF g.pc = "done"
            THEN g
            ELSE IF g.op = "getClassroomStudents" /\ ~hasTeacher(g)
            THEN Respond(g, 403, "Teacher profile missing")
            ELSE [g EXCEPT !.pc = "findClassroom"]]
    /\ UNCHANGED <<core, others>>

(* findUnique, then the checks up to the query of                          *)
(* resolveTeacherClassroomAssociation; ensureTeacherCanViewClassroom       *)
(* returns undefined for a caller who is no teacher                        *)
ClassroomReadFind(r) ==
    /\ req[r].op \in {"getClassroomSessions", "getClassroomSummary", "getClassroomStudents"}
    /\ req[r].pc = "findClassroom"
    /\ LET rq == req[r]
           me == users[rq.user]
           refuse(code, msg) == [Respond(rq, code, msg) EXCEPT !.classroomId = rq.classroomId]
       IN req' = [req EXCEPT ![r] =
            IF rq.classroomId \notin DOMAIN Classroom
            THEN refuse(404, "Classroom not found")
            ELSE IF me.role = "TEACHER" /\ hasTeacher(rq)
            THEN IF Teacher[me.teacherId].schoolId # Classroom[rq.classroomId].schoolId
                 THEN refuse(403, "Forbidden")
                 ELSE [rq EXCEPT !.pc = "association"]
            ELSE IF /\ me.role = "PRINCIPAL"
                    /\ (me.schoolId = 0 \/ me.schoolId # Classroom[rq.classroomId].schoolId)
            THEN refuse(403, "Forbidden")
            ELSE [rq EXCEPT !.pc = "findMany"]]
    /\ UNCHANGED <<core, others>>

(* as ClassroomReadAssociation, a teacher without any tie let through *)
ClassroomReadAssociationUnchecked(r) ==
    /\ req[r].op \in {"getClassroomSessions", "getClassroomSummary", "getClassroomStudents"}
    /\ req[r].pc = "association"
    /\ LET rq == req[r]
           association == resolveTeacherClassroomAssociation(users[rq.user].teacherId,
                                                              rq.classroomId)
       IN req' = [req EXCEPT ![r] =
                    [rq EXCEPT !.pc = "findMany", !.homeroom = association.homeroom]]
    /\ UNCHANGED <<core, others>>

ClassroomReadAssociation(r) ==
    /\ req[r].op \in {"getClassroomSessions", "getClassroomSummary", "getClassroomStudents"}
    /\ req[r].pc = "association"
    /\ LET rq == req[r]
           association == resolveTeacherClassroomAssociation(users[rq.user].teacherId,
                                                              rq.classroomId)
       IN req' = [req EXCEPT ![r] =
            IF ~association.homeroom /\ ~association.subject
            THEN [Respond(rq, 403, "Teachers can only view classrooms they are assigned to")
                    EXCEPT !.classroomId = rq.classroomId]
            ELSE [rq EXCEPT !.pc = "findMany", !.homeroom = association.homeroom]]
    /\ UNCHANGED <<core, others>>

(* as ClassroomReadFindMany, the edit deadline left out of canEdit *)
ClassroomReadFindManyAnyTime(r) ==
    /\ req[r].op \in {"getClassroomSessions", "getClassroomSummary", "getClassroomStudents"}
    /\ req[r].pc = "findMany"
    /\ LET rq == req[r]
           listed == {i \in 1..Len(sessions) :
                        /\ sessions[i].classroomId = rq.classroomId
                        /\ (rq.op = "getClassroomSummary" /\ rq.dateFilter)
                           => sessions[i].sessionDate = normalizeDateOnly(rq.sessionDate)}
           records(ids) == Cardinality({k \in 1..Len(attendance) :
                                            attendance[k].attendanceSessionId \in ids})
           ofStudent(st) == Cardinality({k \in 1..Len(attendance) :
                                /\ attendance[k].studentId = st
                                /\ \E i \in 1..Len(sessions) :
                                        /\ sessions[i].id = attendance[k].attendanceSessionId
                                        /\ sessions[i].classroomId = rq.classroomId})
       IN req' = [req EXCEPT ![r] =
            IF rq.op = "getClassroomStudents"
            THEN [Respond(rq, 200, "ok") EXCEPT
                    !.classroomId = rq.classroomId,
                    !.canEdit = rq.homeroom,
                    !.payload = {[id |-> st, canEdit |-> rq.homeroom,
                                  totalRecords |-> ofStudent(st)] :
                                    st \in {x \in DOMAIN students :
                                                students[x].classroomId = rq.classroomId}}]
            ELSE [Respond(rq, 200, "ok") EXCEPT
                    !.classroomId = rq.classroomId,
                    !.data = records({sessions[i].id : i \in listed}),
                    !.payload = {[id |-> sessions[i].id,
                                  canEdit |-> rq.homeroom,
                                  totalRecords |-> records({sessions[i].id})] : i \in listed}]]
    /\ UNCHANGED <<core, others>>

(* the last query and the response: the sessions of the classroom (of the  *)
(* one date when the summary is asked for a date) with canEdit and the     *)
(* number of their records, or the students of the classroom with the      *)
(* number of their records in the classroom's sessions                     *)
ClassroomReadFindMany(r) ==
    /\ req[r].op \in {"getClassroomSessions", "getClassroomSummary", "getClassroomStudents"}
    /\ req[r].pc = "findMany"
    /\ LET rq == req[r]
           listed == {i \in 1..Len(sessions) :
                        /\ sessions[i].classroomId = rq.classroomId
                        /\ (rq.op = "getClassroomSummary" /\ rq.dateFilter)
                           => sessions[i].sessionDate = normalizeDateOnly(rq.sessionDate)}
           records(ids) == Cardinality({k \in 1..Len(attendance) :
                                            attendance[k].attendanceSessionId \in ids})
           ofStudent(st) == Cardinality({k \in 1..Len(attendance) :
                                /\ attendance[k].studentId = st
                                /\ \E i \in 1..Len(sessions) :
                                        /\ sessions[i].id = attendance[k].attendanceSessionId
                                        /\ sessions[i].classroomId = rq.classroomId})
       IN req' = [req EXCEPT ![r] =
            IF rq.op = "getClassroomStudents"
            THEN [Respond(rq, 200, "ok") EXCEPT
                    !.classroomId = rq.classroomId,
                    !.canEdit = rq.homeroom,
                    !.payload = {[id |-> st, canEdit |-> rq.homeroom,
                                  totalRecords |-> ofStudent(st)] :
                                    st \in {x \in DOMAIN students :
                                                students[x].classroomId = rq.classroomId}}]
            ELSE [Respond(rq, 200, "ok") EXCEPT
                    !.classroomId = rq.classroomId,
                    !.data = records({sessions[i].id : i \in listed}),
                    !.payload = {[id |-> sessions[i].id,
                                  canEdit |-> /\ rq.homeroom
                                              /\ now <= computeEditDeadline(sessions[i].sessionDate),
                                  totalRecords |-> records({sessions[i].id})] : i \in listed}]]
    /\ UNCHANGED <<core, others>>

----------------------------------------------------------------------------
(* The clock *)

ClockTimes == {t \in 0..MaxNow : t % HoursPerDay = 0}

Tick ==
    /\ \E t \in ClockTimes : t > now /\ now' = t
    /\ UNCHANGED <<users, students, sessions, attendance, submitted, deviceKey, req, others>>

----------------------------------------------------------------------------
(* Request inputs *)

Client(token, sub, key) == [authToken |-> token, tokenSub |-> sub, key |-> key]
User(u) == Client(ValidToken, u, NoKey)
Device == Client(NoToken, 0, GoodKey)

WithClient(rq, client) ==
    [rq EXCEPT !.authToken = client.authToken, !.tokenSub = client.tokenSub, !.key = client.key]

CreateSessionInputs(clients, schools, classrooms, dates) ==
    {WithClient([Blank EXCEPT !.op = "createSession", !.schoolId = s,
                              !.classroomId = c, !.sessionDate = d],
                client) :
        client \in clients, s \in schools, c \in classrooms, d \in dates}

Entry(studentId, status) == [studentId |-> studentId, status |-> status]

RecordAttendanceInputs(clients, sessionIds, batches) ==
    {WithClient([Blank EXCEPT !.op = "recordAttendance", !.sessionId = sid, !.entries = b],
                client) :
        client \in clients, sid \in sessionIds, b \in batches}

UpdateStudentInputs(clients, studentIds, classroomIds, teacherIds) ==
    {WithClient([Blank EXCEPT !.op = "updateStudent", !.studentId = st, !.classroomId = c,
                              !.setTeacher = TRUE, !.classTeacherId = t],
                client) :
        client \in clients, st \in studentIds, c \in classroomIds, t \in teacherIds}

LoginInputs(emails, passwords) ==
    {[Blank EXCEPT !.op = "login", !.email = e, !.password = pw] :
        e \in emails, pw \in passwords}

SetUserStatusInputs(clients, targets, statuses) ==
    {WithClient([Blank EXCEPT !.op = "setUserStatus", !.targetId = t, !.newStatus = st],
                client) :
        client \in clients, t \in targets, st \in statuses}

GetSessionDetailInputs(clients, sessionIds) ==
    {WithClient([Blank EXCEPT !.op = "getSessionDetail", !.sessionId = sid], client) :
        client \in clients, sid \in sessionIds}

CreateStudentInputs(clients, schools, classrooms, teacherIds) ==
    {WithClient([Blank EXCEPT !.op = "createStudent", !.schoolId = s, !.classroomId = c,
                              !.classTeacherId = t],
                client) :
        client \in clients, s \in schools, c \in classrooms, t \in teacherIds}

CreateUserInputs(clients, emails, roles, schools, studentIds, teacherIds) ==
    {in \in {WithClient([Blank EXCEPT !.op = "createUser", !.email = e,
                                      !.password = "NewUserPass1!", !.newRole = ro,
                                      !.schoolId = s, !.studentId = st, !.teacherId = t],
                        client) :
                client \in clients, e \in emails, ro \in roles, s \in schools,
                st \in studentIds, t \in teacherIds} :
        createUserSchema(in)}

StudentReadInputs(ops, clients, studentIds) ==
    {WithClient([Blank EXCEPT !.op = op, !.studentId = st], client) :
        op \in ops, client \in clients, st \in studentIds}

AddGroupMembersInputs(clients, groupIds, batches, adders) ==
    {WithClient([Blank EXCEPT !.op = "addGroupMembers", !.groupId = g, !.studentIds = b,
                              !.addedBy = a],
                client) :
        client \in clients, g \in groupIds, b \in batches, a \in adders}

AssignTeacherSubjectInputs(clients, teacherIds, subjectIds, classroomIds, startDates) ==
    {WithClient([Blank EXCEPT !.op = "assignTeacherSubject", !.teacherId = t,
                              !.subjectId = s, !.classroomId = c, !.startDate = d],
                client) :
        client \in clients, t \in teacherIds, s \in subjectIds, c \in classroomIds,
        d \in startDates}

Targets(studentIds, studentGroupIds, teacherIds, classroomIds) ==
    [studentIds |-> studentIds, studentGroupIds |-> studentGroupIds,
     teacherIds |-> teacherIds, classroomIds |-> classroomIds]

CreateNotificationInputs(clients, schools, publics, targets) ==
    {WithClient([Blank EXCEPT !.op = "createNotification", !.schoolId = s, !.isPublic = p,
                              !.studentIds = t.studentIds,
                              !.studentGroupIds = t.studentGroupIds,
                              !.teacherIds = t.teacherIds,
                              !.classroomIds = t.classroomIds],
                client) :
        client \in clients, s \in schools, p \in publics, t \in targets}

Slot(weekDay, period, label) == [weekDay |-> weekDay, period |-> period, label |-> label]

ReplaceTimetableInputs(clients, classroomIds, batches) ==
    {WithClient([Blank EXCEPT !.op = "replaceClassroomTimetable", !.classroomId = c,
                              !.timetableEntries = b],
                client) :
        client \in clients, c \in classroomIds, b \in batches}

ClassroomReadInputs(ops, clients, classroomIds, dates) ==
    {WithClient([Blank EXCEPT !.op = op, !.classroomId = c,
                              !.dateFilter = d # {}, !.sessionDate = IF d = {} THEN 0 ELSE CHOOSE x \in d : TRUE],
                client) :
        op \in ops, client \in clients, c \in classroomIds, d \in dates}

----------------------------------------------------------------------------
(* Initial state: the seeded tables, no request in flight *)

Init ==
    /\ users = InitUsers
    /\ students = InitStudents
    /\ sessions = <<>>
    /\ attendance = <<>>
    /\ submitted = {}
    /\ now = 0
    /\ deviceKey \in {NoKey, GoodKey}
    /\ req = [r \in Slots |-> Blank]
    /\ groupMembers = <<>>
    /\ teacherSubjects = TeacherSubject
    /\ notifications = <<>>
    /\ notificationTargets = <<>>
    /\ timetable = {}

----------------------------------------------------------------------------
(* Concurrent createSession requests from teachers and devices *)

SessionClients == {User(2), User(3), Device}
SessionDates == {0, 9, 24}

NextSessions ==
    \E r \in Slots :
        \/ \E in \in CreateSessionInputs(SessionClients, SchoolIds, {10}, SessionDates) :
                BeginCreateSession(r, in)
        \/ CreateSessionHomeroom(r)
        \/ CreateSessionFind(r)
        \/ CreateSessionInsert(r)

SpecSessions == Init /\ [][NextSessions]_vars

----------------------------------------------------------------------------
(* Attendance, one request at a time: sessions are created, attendance is  *)
(* recorded, homeroom teachers are reassigned and the clock advances       *)

InitConfigured == Init /\ deviceKey = GoodKey

Batches ==
    {<<Entry(1, "present")>>, <<Entry(2, "late")>>,
     <<Entry(1, "late"), Entry(1, "excused")>>}

Next ==
    \/ \E in \in CreateSessionInputs({User(2), User(3), Device}, {1}, {10}, {0, 24}) :
            BeginCreateSession(1, in)
    \/ CreateSessionHomeroom(1)
    \/ CreateSessionFind(1)
    \/ CreateSessionInsert(1)
    \/ \E in \in RecordAttendanceInputs({User(2), User(3), Device}, {1, 2}, Batches) :
            BeginRecordAttendance(1, in)
    \/ RecordFindSession(1)
    \/ RecordHomeroom(1)
    \/ RecordTransaction(1)
    \/ \E in \in UpdateStudentInputs({User(1)}, {1}, {0, 10}, {101, 102}) :
            BeginUpdateStudent(1, in)
    \/ UpdateStudentFind(1)
    \/ UpdateStudentFindClassroom(1)
    \/ UpdateStudentWrite(1)
    \/ Tick

Spec == InitConfigured /\ [][Next]_vars

----------------------------------------------------------------------------
(* Every modelled route, one request at a time, called by every kind of    *)
(* client: each role with a valid token, no token, a bad token, the device *)
(* key, a wrong key                                                        *)

AuthClients ==
    {User(u) : u \in DOMAIN InitUsers}
    \cup {Client(NoToken, 0, NoKey), Client(InvalidToken, 0, NoKey),
          Device, Client(NoToken, 0, BadKey), Client(ValidToken, 5, GoodKey)}

NextAuth ==
    \/ \E in \in LoginInputs({"teacher@mock.test", "student@mock.test", "nobody@mock.test"},
                             {"TeacherPass123!", "StudentPass123!"}) :
            Login(1, in)
    \/ \E in \in SetUserStatusInputs(AuthClients, {2, 5}, {"active", "blocked"}) :
            BeginSetUserStatus(1, in)
    \/ SetUserStatusUpdate(1)
    \/ \E in \in CreateSessionInputs(AuthClients, {1}, {10}, {0}) :
            BeginCreateSession(1, in)
    \/ CreateSessionHomeroom(1)
    \/ CreateSessionFind(1)
    \/ CreateSessionInsert(1)
    \/ \E in \in RecordAttendanceInputs(AuthClients, {1}, {<<Entry(1, "present")>>}) :
            BeginRecordAttendance(1, in)
    \/ RecordFindSession(1)
    \/ RecordHomeroom(1)
    \/ RecordTransaction(1)
    \/ \E in \in GetSessionDetailInputs(AuthClients, {1}) :
            BeginGetSessionDetail(1, in)
    \/ DetailFindSession(1)
    \/ DetailAssociation(1)
    \/ \E in \in CreateStudentInputs(AuthClients, {1}, {10}, {0}) :
            BeginCreateStudent(1, in)
    \/ CreateStudentFindClassroom(1)
    \/ CreateStudentInsert(1)
    \/ \E in \in UpdateStudentInputs(AuthClients, {1}, {0, 10}, {101, 102}) :
            BeginUpdateStudent(1, in)
    \/ UpdateStudentFind(1)
    \/ UpdateStudentFindClassroom(1)
    \/ UpdateStudentWrite(1)

SpecAuth == Init /\ [][NextAuth]_vars


----------------------------------------------------------------------------
(* User accounts created by the admin, the principal of school 1 and a      *)
(* teacher, for records of both schools                                    *)

NextUsers ==
    \/ \E in \in CreateUserInputs({User(1), User(2), User(4)},
                                  {"new@mock.test", "teacher@mock.test"},
                                  {"STUDENT", "TEACHER", "ADMIN"},
                                  {0, 1, 2}, {0, 1, 3}, {0, 101, 103}) :
            BeginCreateUser(1, in)
    \/ CreateUserFindStudent(1)
    \/ CreateUserFindTeacher(1)
    \/ CreateUserInsert(1)

SpecUsers == Init /\ [][NextUsers]_vars

----------------------------------------------------------------------------
(* One classroom's day: the homeroom teacher creates the session and       *)
(* records attendance, and every kind of user reads students' data         *)

StudentReads == {"getStudent", "getStudentAttendance", "getStudentSummary"}

NextReads ==
    \/ \E in \in CreateSessionInputs({User(2)}, {1}, {10}, {0}) :
            BeginCreateSession(1, in)
    \/ CreateSessionHomeroom(1)
    \/ CreateSessionFind(1)
    \/ CreateSessionInsert(1)
    \/ \E in \in RecordAttendanceInputs({User(2)}, {1},
                                        {<<Entry(1, "present")>>, <<Entry(1, "absent")>>}) :
            BeginRecordAttendance(1, in)
    \/ RecordFindSession(1)
    \/ RecordHomeroom(1)
    \/ RecordTransaction(1)
    \/ \E in \in StudentReadInputs(StudentReads, {User(u) : u \in DOMAIN InitUsers},
                                   {0, 1, 2, 3, 9}) :
            \/ BeginGetStudent(1, in)
            \/ BeginGetStudentAttendance(1, in)
            \/ BeginGetStudentSummary(1, in)
    \/ GetStudentFind(1)
    \/ HistoryTeacherScope(1)
    \/ HistoryPrincipalScope(1)
    \/ HistoryFindMany(1)
    \/ SummaryFind(1)
    \/ SummaryToday(1)
    \/ SummaryThisWeek(1)
    \/ SummaryOverall(1)
    \/ Tick

SpecReads == InitConfigured /\ [][NextReads]_vars

----------------------------------------------------------------------------
(* Enrolment: members are added to student groups, one request at a time   *)

MemberBatches == {<<1>>, <<2, 1>>, <<1, 1>>, <<1, 9>>}

NextEnrolment ==
    \/ \E in \in AddGroupMembersInputs({User(1), User(2), User(5)}, {1, 2, 7},
                                       MemberBatches, {101, 102}) :
            BeginAddGroupMembers(1, in)
    \/ AddGroupMembersFindGroup(1)
    \/ AddGroupMembersTransaction(1)

SpecEnrolment == Init /\ [][NextEnrolment]_vars

----------------------------------------------------------------------------
(* Assignments: teachers are assigned to subjects, one request at a time   *)
(* The handler checks and then creates in two statements, and the sources  *)
(* show no unique index on the tuple, so the calls are taken one after the *)
(* other, as a sequence of calls is.                                       *)

NextAssignments ==
    \/ \E in \in AssignTeacherSubjectInputs({User(1), User(2), User(4), User(5)},
                                            {101, 103, 109}, {1}, {0, 10}, {24}) :
            BeginAssignTeacherSubject(1, in)
    \/ AssignTeacherSubjectFindTeacher(1)
    \/ AssignTeacherSubjectFindExisting(1)
    \/ AssignTeacherSubjectCreate(1)

SpecAssignments == Init /\ [][NextAssignments]_vars

----------------------------------------------------------------------------
(* Notifications: notices are created with their targets, one request at a *)
(* time                                                                    *)

NotificationTargetSets ==
    {Targets(<<>>, <<>>, <<>>, <<>>),
     Targets(<<1>>, <<1>>, <<101>>, <<10>>),
     Targets(<<1, 2>>, <<>>, <<>>, <<>>)}

NextNotifications ==
    \/ \E in \in CreateNotificationInputs({User(1), User(2), User(4), User(5)}, {1, 2, 9},
                                          BOOLEAN, NotificationTargetSets) :
            BeginCreateNotification(1, in)
    \/ CreateNotificationCreate(1)
    \/ CreateNotificationTargets(1)

SpecNotifications == Init /\ [][NextNotifications]_vars

----------------------------------------------------------------------------
(* Timetables: classroom timetables are replaced, one request at a time    *)

TimetableBatches ==
    {<<Slot(1, 1, "Mathematics"), Slot(1, 2, "Advisory")>>,
     <<Slot(1, 1, "Advisory")>>,
     <<Slot(1, 1, "Mathematics"), Slot(1, 1, "Advisory")>>,
     <<Slot(1, 1, "Mathematics"), Slot(2, 1, "Science"), Slot(1, 1, "Advisory")>>,
     <<>>}

NextTimetables ==
    \/ \E in \in ReplaceTimetableInputs({User(1), User(2), User(4)}, {10, 20, 99},
                                        TimetableBatches) :
            BeginReplaceClassroomTimetable(1, in)
    \/ ReplaceTimetableFindClassroom(1)
    \/ ReplaceTimetableTransaction(1)

SpecTimetables == Init /\ [][NextTimetables]_vars

----------------------------------------------------------------------------
(* Students: students are created and updated, one request at a time       *)

NextStudents ==
    \/ \E in \in CreateStudentInputs({User(1), User(4), User(2)}, {1, 2}, {10}, {0, 101, 103}) :
            BeginCreateStudent(1, in)
    \/ CreateStudentFindClassroom(1)
    \/ CreateStudentInsert(1)
    \/ \E in \in UpdateStudentInputs({User(1), User(4), User(2)}, {1, 3}, {0, 10, 11}, {0, 101, 103}) :
            BeginUpdateStudent(1, in)
    \/ UpdateStudentFind(1)
    \/ UpdateStudentFindClassroom(1)
    \/ UpdateStudentWrite(1)

SpecStudents == Init /\ [][NextStudents]_vars

----------------------------------------------------------------------------
(* A classroom's sessions read by every kind of user while its homeroom    *)
(* teacher changes and the clock advances, one request at a time           *)

NextClassrooms ==
    \/ \E in \in CreateSessionInputs({User(2), User(3)}, {1}, {10}, {0, 24}) :
            BeginCreateSession(1, in)
    \/ CreateSessionHomeroom(1)
    \/ CreateSessionFind(1)
    \/ CreateSessionInsert(1)
    \/ \E in \in RecordAttendanceInputs({User(2), User(3)}, {1}, {<<Entry(1, "present")>>}) :
            BeginRecordAttendance(1, in)
    \/ RecordFindSession(1)
    \/ RecordHomeroom(1)
    \/ RecordTransaction(1)
    \/ \E in \in UpdateStudentInputs({User(1)}, {1}, {0}, {0, 101}) :
            BeginUpdateStudent(1, in)
    \/ UpdateStudentFind(1)
    \/ UpdateStudentWrite(1)
    \/ \E in \in ClassroomReadInputs({"getClassroomSessions", "getClassroomSummary",
                                      "getClassroomStudents"},
                                     {User(u) : u \in DOMAIN InitUsers}, {10, 20, 99},
                                     {{}, {24}}) :
            BeginClassroomRead(1, in)
    \/ ClassroomReadFind(1)
    \/ ClassroomReadAssociation(1)
    \/ ClassroomReadFindMany(1)
    \/ \E in \in GetSessionDetailInputs({User(u) : u \in DOMAIN InitUsers}, {1}) :
            BeginGetSessionDetail(1, in)
    \/ DetailFindSession(1)
    \/ DetailAssociation(1)
    \/ Tick

SpecClassrooms == InitConfigured /\ [][NextClassrooms]_vars

----------------------------------------------------------------------------
(* Sessions and their records written by the homeroom teacher and by a     *)
(* device, one request at a time: sessions asked for with different hours  *)
(* and schools, batches that name students of other classrooms and         *)
(* students that do not exist                                              *)

NextRecords ==
    \/ \E in \in CreateSessionInputs({User(2), Device}, {1, 2}, {10}, {0}) :
        \E hours \in {<<0, 0>>, <<9, 10>>} :
            BeginCreateSession(1, [in EXCEPT !.startsAt = hours[1], !.endsAt = hours[2]])
    \/ CreateSessionHomeroom(1)
    \/ CreateSessionFind(1)
    \/ CreateSessionInsert(1)
    \/ \E in \in RecordAttendanceInputs({User(2), Device}, {1},
                                        {<<Entry(1, "present")>>,
                                         <<Entry(2, "late"), Entry(1, "absent"), Entry(9, "late")>>,
                                         <<Entry(3, "present")>>}) :
            BeginRecordAttendance(1, in)
    \/ RecordFindSession(1)
    \/ RecordHomeroom(1)
    \/ RecordTransaction(1)
    \/ Tick

SpecRecords == InitConfigured /\ [][NextRecords]_vars

----------------------------------------------------------------------------
(* Properties of session creation, checked under SpecSessions *)

(* C1: at most one AttendanceSession exists for each pair (classroomId,    *)
(* sessionDate normalised to midnight), whatever createSession requests    *)
(* ran and however they interleaved.                                       *)
OneSessionPerClassroomDate ==
    \A i, j \in 1..Len(sessions) :
        (/\ sessions[i].classroomId = sessions[j].classroomId
         /\ sessions[i].sessionDate - (sessions[i].sessionDate % 24)
                = sessions[j].sessionDate - (sessions[j].sessionDate % 24))
        => i = j

(* two requests for one pair raced past the lookup and the second insert   *)
(* was refused                                                             *)
RacingInsertRefused ==
    \E r \in Slots :
        /\ req[r].pc = "done"
        /\ req[r].op = "createSession"
        /\ req[r].status = 500
        /\ Len(sessions) >= 1

(* the caller of a createSession request passes the handler's              *)
(* authorisation: a device, or a teacher of the school named in the body   *)
(* who is class teacher of a student of the classroom                      *)
AuthorisedCreator(rq) ==
    \/ rq.deviceAuth
    \/ /\ rq.user # 0
       /\ users[rq.user].role = "TEACHER"
       /\ users[rq.user].teacherId \in DOMAIN Teacher
       /\ Teacher[users[rq.user].teacherId].schoolId = rq.schoolId
       /\ \E s \in DOMAIN students :
            /\ students[s].classroomId = rq.classroomId
            /\ students[s].classTeacherId = users[rq.user].teacherId

(* C2: a createSession request of an authorised caller that arrives when   *)
(* the session for its (classroom, date) has already been created (a 201   *)
(* was returned for the pair) is answered 409.                             *)
LaterCreateYieldsConflict ==
    [][\A r \in Slots :
        (/\ req[r].op = "createSession"
         /\ req[r].pc \notin {"idle", "done"}
         /\ req'[r].pc = "done"
         /\ req[r].existedAtStart
         /\ AuthorisedCreator(req[r]))
        => req'[r].status = 409]_vars

SecondCreateAnswered409 ==
    \E r \in Slots :
        /\ req[r].pc = "done"
        /\ req[r].op = "createSession"
        /\ req[r].existedAtStart
        /\ req[r].status = 409

----------------------------------------------------------------------------
(* Properties of attendance records, checked under Spec *)

PairRows(sessionId, studentId) ==
    {i \in 1..Len(attendance) :
        /\ attendance[i].attendanceSessionId = sessionId
        /\ attendance[i].studentId = studentId}

(* C3: after any sequence of successful recordAttendance calls there is    *)
(* exactly one StudentAttendance row for each (session, student) pair ever *)
(* submitted, it carries the status of the latest successful submission    *)
(* for the pair, and no row exists for a pair never submitted.             *)
OneRowPerPairLatestStatus ==
    /\ \A h \in submitted :
        /\ Cardinality(PairRows(h.attendanceSessionId, h.studentId)) = 1
        /\ \A i \in PairRows(h.attendanceSessionId, h.studentId) :
                attendance[i].status = h.status
    /\ \A i \in 1..Len(attendance) :
        \E h \in submitted :
            /\ h.attendanceSessionId = attendance[i].attendanceSessionId
            /\ h.studentId = attendance[i].studentId

(* student 1 was submitted as late and then as excused, another pair has   *)
(* its own row                                                             *)
ResubmittedPairHasOneRow ==
    /\ Len(attendance) >= 2
    /\ \E i \in 1..Len(attendance) :
        /\ attendance[i].studentId = 1
        /\ attendance[i].status = "excused"
        /\ Cardinality(PairRows(attendance[i].attendanceSessionId, 1)) = 1

Content(rows) ==
    {[attendanceSessionId |-> rows[i].attendanceSessionId,
      studentId |-> rows[i].studentId,
      status |-> rows[i].status] : i \in 1..Len(rows)}

SameRows(a, b) == Len(a) = Len(b) /\ Content(a) = Content(b)

AlgebraEntries == {Entry(st, status) : st \in {1, 2}, status \in {"present", "absent"}}

(* C4: on every reachable attendance table, recording an entry twice       *)
(* leaves the rows that recording it once leaves, and recording two        *)
(* entries for different students leaves the same rows in either order.    *)
RecordIdempotentAndOrderFree ==
    \A i \in 1..Len(sessions) : \A e1 \in AlgebraEntries :
        LET once == upsertAll(attendance, sessions[i].id, <<e1>>) IN
        /\ upsertAll(once, sessions[i].id, <<e1>>) = once
        /\ \A e2 \in AlgebraEntries :
            e1.studentId # e2.studentId =>
                SameRows(upsertAll(once, sessions[i].id, <<e2>>),
                         upsertAll(upsertAll(attendance, sessions[i].id, <<e2>>),
                                   sessions[i].id, <<e1>>))

(* a recorded entry is in the table: recording it again meets its own row, *)
(* and an entry for the other student of the session has still to create   *)
(* one                                                                     *)
RecordedEntryReapplied ==
    \E i \in 1..Len(attendance) :
        /\ attendance[i].studentId = 1
        /\ attendance[i].status = "present"
        /\ PairRows(attendance[i].attendanceSessionId, 2) = {}
        /\ \E r \in Slots : req[r].pc = "done" /\ req[r].op = "recordAttendance"
                            /\ req[r].status = 200

WindowMessage == "Attendance can only be edited within 24 hours of the session date"
HomeroomMessage == "Teachers can only manage attendance for their homerooms"

IsClassTeacherIn(teacherId, classroomId) ==
    \E s \in DOMAIN students :
        /\ students[s].classroomId = classroomId
        /\ students[s].classTeacherId = teacherId

TeacherRequest(rq) == rq.user # 0 /\ users[rq.user].role = "TEACHER"

(* the classroom a request in the handler is about *)
TargetClassroom(rq) ==
    IF rq.op = "createSession" THEN rq.classroomId ELSE sessions[rq.sessionId].classroomId

(* C5: when the homeroom teacher's recordAttendance reaches the window     *)
(* check, it is answered 403 with no row written if now is later than      *)
(* midnight of the session date plus 24 hours, and passes on to the write  *)
(* if now is at or before it; no step of a device's recordAttendance       *)
(* answers with the window refusal.                                        *)
EditWindowForTeachersOnly ==
    [][\A r \in Slots :
        /\ (/\ req[r].op = "recordAttendance"
            /\ req[r].pc = "homeroom"
            /\ req'[r] # req[r]
            /\ IsClassTeacherIn(users[req[r].user].teacherId, TargetClassroom(req[r])))
           => LET d == sessions[req[r].sessionId].sessionDate
                  deadline == (d - (d % 24)) + 24
              IN IF now > deadline
                 THEN /\ req'[r].pc = "done"
                      /\ req'[r].status = 403
                      /\ attendance' = attendance
                 ELSE req'[r].pc = "tx"
        /\ (/\ req'[r].op = "recordAttendance"
            /\ req'[r].deviceAuth)
           => req'[r].message # WindowMessage]_vars

TeacherRefusedAfterWindow ==
    \E r \in Slots :
        /\ req[r].pc = "done"
        /\ req[r].op = "recordAttendance"
        /\ req[r].status = 403
        /\ req[r].message = WindowMessage
        /\ now > 24

(* C6: a teacher who is class teacher of no student now in the classroom   *)
(* is answered 403 by createSession and by recordAttendance, the step      *)
(* writes nothing, a teacher's request goes on to the lookup or the write  *)
(* only from a homeroom check that found such a student, and only a        *)
(* request that went on writes a session or an attendance row.             *)
NonHomeroomTeacherRefused ==
    [][/\ \A r \in Slots :
            /\ (/\ req[r].op \in {"createSession", "recordAttendance"}
                /\ req[r].pc = "homeroom"
                /\ req'[r] # req[r]
                /\ ~IsClassTeacherIn(users[req[r].user].teacherId, TargetClassroom(req[r])))
               => /\ req'[r].pc = "done"
                  /\ req'[r].status = 403
                  /\ sessions' = sessions
                  /\ attendance' = attendance
            /\ (/\ req'[r].op \in {"createSession", "recordAttendance"}
                /\ TeacherRequest(req'[r])
                /\ req'[r].pc \in {"find", "tx"}
                /\ req[r].pc # req'[r].pc)
               => /\ req[r].pc = "homeroom"
                  /\ req[r].user = req'[r].user
                  /\ IsClassTeacherIn(users[req[r].user].teacherId, TargetClassroom(req[r]))
       /\ sessions' # sessions => \E r \in Slots : req[r].pc = "create"
       /\ attendance' # attendance => \E r \in Slots : req[r].pc = "tx"]_vars

(* teacher 102 of school 1 was refused for classroom 10 of school 1 *)
SameSchoolTeacherRefused ==
    \E r \in Slots :
        /\ req[r].pc = "done"
        /\ req[r].status = 403
        /\ req[r].message = HomeroomMessage
        /\ req[r].user = 3
        /\ Teacher[users[3].teacherId].schoolId = Classroom[10].schoolId
        /\ ~IsClassTeacherIn(102, 10)

----------------------------------------------------------------------------
(* Properties of access control and login, checked under SpecAuth *)

WriteRoutes == {"createSession", "recordAttendance"}

ActorMessage == "Only teachers or authorized devices can mark attendance"

(* C7: a createSession or recordAttendance request that carries a valid    *)
(* token of an ADMIN, GOVERNMENT, PRINCIPAL or STUDENT user and is not a   *)
(* device request is answered 403 by its first step, and that step writes  *)
(* no session and no attendance row.                                       *)
OnlyTeachersAndDevicesWrite ==
    [][\A r \in Slots :
        (/\ Free(r)
         /\ req'[r] # req[r]
         /\ req'[r].op \in WriteRoutes
         /\ req'[r].authToken = ValidToken
         /\ req'[r].tokenSub \in DOMAIN users
         /\ users[req'[r].tokenSub].role \in {"ADMIN", "GOVERNMENT", "PRINCIPAL", "STUDENT"}
         /\ ~req'[r].deviceAuth)
        => /\ req'[r].pc = "done"
           /\ req'[r].status = 403
           /\ sessions' = sessions
           /\ attendance' = attendance]_vars

(* the active admin called createSession and was refused as an actor *)
AdminRefusedOnWriteRoute ==
    \E r \in Slots :
        /\ req[r].pc = "done"
        /\ req[r].op = "createSession"
        /\ req[r].user = 1
        /\ users[1].role = "ADMIN"
        /\ req[r].status = 403
        /\ req[r].message = ActorMessage

(* C8: a request without a valid token is taken for a device request only  *)
(* when a device key is configured, the x-device-key header equals it, the *)
(* method is POST and the route is createSession or recordAttendance; any  *)
(* other request without a valid token is finished with 401 before a       *)
(* handler ran.                                                            *)
DeviceKeyOnlyOnWriteRoutes ==
    \A r \in Slots :
        (/\ req[r].pc # "idle"
         /\ req[r].op # "login"
         /\ req[r].authToken # ValidToken)
        => IF req[r].deviceAuth
           THEN /\ deviceKey # NoKey
                /\ req[r].key = deviceKey
                /\ Routes[req[r].op].method = "POST"
                /\ req[r].op \in WriteRoutes
           ELSE /\ req[r].pc = "done"
                /\ req[r].status = 401

(* the configured key was sent to the GET route under /attendance/sessions *)
(* and the request was answered 401                                        *)
DeviceKeyRefusedOnGet ==
    \E r \in Slots :
        /\ req[r].pc = "done"
        /\ req[r].op = "getSessionDetail"
        /\ deviceKey = GoodKey
        /\ req[r].key = deviceKey
        /\ req[r].authToken = NoToken
        /\ ~req[r].deviceAuth
        /\ req[r].status = 401

BlockedMessage == "User is blocked"

(* C9: a request arriving with a valid token of a user whose row says      *)
(* blocked when it arrives is answered 403 "User is blocked" by its first  *)
(* step and no table changes; the same token is let through authenticate   *)
(* when the row says active; a successful setUserStatus, which only an     *)
(* admin reaches, leaves the status it was asked for in the row.           *)
BlockedUserRejected ==
    [][\A r \in Slots :
        /\ (/\ Free(r)
            /\ req'[r] # req[r]
            /\ req'[r].op \notin {"login", "none"}
            /\ req'[r].authToken = ValidToken
            /\ req'[r].tokenSub \in DOMAIN users
            /\ ~req'[r].deviceAuth)
           => IF users[req'[r].tokenSub].status = "blocked"
              THEN /\ req'[r].pc = "done"
                   /\ req'[r].status = 403
                   /\ req'[r].message = BlockedMessage
                   /\ req'[r].user = 0
                   /\ UNCHANGED <<users, students, sessions, attendance>>
              ELSE /\ req'[r].user = req'[r].tokenSub
                   /\ req'[r].message # BlockedMessage
        /\ (/\ req[r].op = "setUserStatus"
            /\ req[r].pc = "update"
            /\ req'[r] # req[r]
            /\ req'[r].status = 200)
           => /\ users[req[r].user].role = "ADMIN"
              /\ users'[req[r].targetId].status = req[r].newStatus]_vars

(* the teacher was blocked by the admin and the teacher's token was then   *)
(* refused                                                                 *)
BlockedTeacherRefused ==
    \E r \in Slots :
        /\ req[r].pc = "done"
        /\ req[r].authToken = ValidToken
        /\ req[r].tokenSub = 2
        /\ users[2].status = "blocked"
        /\ req[r].status = 403
        /\ req[r].message = BlockedMessage

ByEmail(email) == {u \in DOMAIN users : users[u].email = email}

(* C10: a login step issues a token exactly when a user has the email, the *)
(* password hashes to the stored hash and the user is active, and the      *)
(* token is that user's; an unknown email and a wrong password get the     *)
(* same answer, 401 "Invalid credentials" without a token; right           *)
(* credentials of a user who is not active get 403 without a token.        *)
LoginIssuesTokenOnlyWhenActive ==
    [][\A r \in Slots :
        (req'[r].op = "login" /\ req'[r] # req[r])
        => LET known == ByEmail(req'[r].email)
               matching == {u \in known :
                              users[u].passwordHash = <<"bcrypt", req'[r].password>>}
           IN /\ req'[r].token # 0 <=> \E u \in matching : users[u].status = "active"
              /\ req'[r].token # 0 => req'[r].token \in matching /\ req'[r].status = 200
              /\ matching = {}
                    => /\ req'[r].status = 401
                       /\ req'[r].message = "Invalid credentials"
                       /\ req'[r].token = 0
              /\ (matching # {} /\ \A u \in matching : users[u].status # "active")
                    => /\ req'[r].status = 403
                       /\ req'[r].token = 0]_vars

(* the blocked teacher logged in with the right password and got 403 *)
BlockedLoginRefused ==
    \E r \in Slots :
        /\ req[r].pc = "done"
        /\ req[r].op = "login"
        /\ req[r].email = "teacher@mock.test"
        /\ req[r].password = "TeacherPass123!"
        /\ users[2].status = "blocked"
        /\ req[r].status = 403
        /\ req[r].token = 0

----------------------------------------------------------------------------
(* Properties of user accounts, checked under SpecUsers *)

(* C11: whenever a createUser request of a PRINCIPAL changes the user      *)
(* table, it adds exactly one row, of role STUDENT or TEACHER, whose       *)
(* schoolId is the principal's, which names a student or a teacher, and    *)
(* every student or teacher it names is of the principal's school; so a    *)
(* principal's request that would break one of these creates no user.      *)
PrincipalCreatesOwnSchoolUsers ==
    [][\A r \in Slots :
        (/\ req[r].op = "createUser"
         /\ req[r].user # 0
         /\ users[req[r].user].role = "PRINCIPAL"
         /\ users' # users)
        => LET school == users[req[r].user].schoolId
               added == DOMAIN users' \ DOMAIN users
           IN /\ Cardinality(added) = 1
              /\ \A u \in DOMAIN users : users'[u] = users[u]
              /\ \A u \in added :
                    /\ users'[u].role \in {"STUDENT", "TEACHER"}
                    /\ users'[u].schoolId = school
                    /\ users'[u].studentId # 0 \/ users'[u].teacherId # 0
                    /\ users'[u].studentId # 0
                          => students[users'[u].studentId].schoolId = school
                    /\ users'[u].teacherId # 0
                          => Teacher[users'[u].teacherId].schoolId = school]_vars

(* the principal of school 1 created the account of a teacher of school 1  *)
PrincipalCreatedTeacherUser ==
    \E r \in Slots : \E u \in DOMAIN users \ DOMAIN InitUsers :
        /\ req[r].pc = "done"
        /\ req[r].op = "createUser"
        /\ req[r].user = 4
        /\ req[r].status = 201
        /\ users[u].role = "TEACHER"
        /\ users[u].teacherId = 101
        /\ users[u].schoolId = users[4].schoolId

----------------------------------------------------------------------------
(* Properties of the role allow-lists, checked under SpecAuth *)

(* the allow-list each guarded route declares *)
RouteRoles ==
    [setUserStatus    |-> {"ADMIN"},
     getSessionDetail |-> {"ADMIN", "GOVERNMENT", "TEACHER", "PRINCIPAL"},
     createStudent    |-> {"ADMIN", "GOVERNMENT", "PRINCIPAL"},
     updateStudent    |-> {"ADMIN", "GOVERNMENT", "PRINCIPAL"}]

(* C12: on a route with an allow-list, the request of an active user whose *)
(* role in the user row is not in the list ends 403 "Forbidden" in its     *)
(* first step and no table changes; a request is inside a handler only if  *)
(* the role of its user is in the list of its route; a status in the user  *)
(* table changes only in a step of a setUserStatus request of an ADMIN.    *)
AllowListEnforced ==
    [][/\ \A r \in Slots :
            /\ (/\ Free(r)
                /\ req'[r] # req[r]
                /\ req'[r].op \in DOMAIN RouteRoles
                /\ req'[r].authToken = ValidToken
                /\ req'[r].tokenSub \in DOMAIN users
                /\ users[req'[r].tokenSub].status = "active")
               => IF users[req'[r].tokenSub].role \in RouteRoles[req'[r].op]
                  THEN req'[r].message # "Forbidden"
                  ELSE /\ req'[r].pc = "done"
                       /\ req'[r].status = 403
                       /\ req'[r].message = "Forbidden"
                       /\ UNCHANGED <<users, students, sessions, attendance>>
            /\ (/\ req'[r].op \in DOMAIN RouteRoles
                /\ req'[r].pc \notin {"idle", "done"})
               => /\ req'[r].user # 0
                  /\ users[req'[r].user].role \in RouteRoles[req'[r].op]
       /\ (\E u \in DOMAIN users : users'[u].status # users[u].status)
            => \E r \in Slots :
                    /\ req[r].op = "setUserStatus"
                    /\ req[r].pc = "update"
                    /\ users[req[r].user].role = "ADMIN"]_vars

(* the principal asked to block the teacher and was refused; the teacher   *)
(* is still active                                                         *)
PrincipalRefusedStatusChange ==
    \E r \in Slots :
        /\ req[r].pc = "done"
        /\ req[r].op = "setUserStatus"
        /\ req[r].user = 4
        /\ users[4].role = "PRINCIPAL"
        /\ req[r].status = 403
        /\ req[r].message = "Forbidden"
        /\ users[2].status = "active"

----------------------------------------------------------------------------
(* Properties of the student read routes, checked under SpecReads *)

(* C13: a finished student detail, attendance history or attendance        *)
(* summary request of a STUDENT user that named an existing student got    *)
(* that student's data if the id is the one linked to the user, and 403    *)
(* with no data if it is any other.                                        *)
StudentReadsOnlySelf ==
    \A r \in Slots :
        (/\ req[r].pc = "done"
         /\ req[r].op \in {"getStudent", "getStudentAttendance", "getStudentSummary"}
         /\ req[r].user # 0
         /\ users[req[r].user].role = "STUDENT"
         /\ req[r].studentId \in DOMAIN students)
        => IF req[r].studentId = users[req[r].user].studentId
           THEN req[r].status = 200 /\ req[r].data = req[r].studentId
           ELSE req[r].status = 403 /\ req[r].data = 0

(* the student user linked to student 1 asked for the attendance history   *)
(* of student 2 and was refused                                            *)
StudentRefusedOtherHistory ==
    \E r \in Slots :
        /\ req[r].pc = "done"
        /\ req[r].op = "getStudentAttendance"
        /\ req[r].user = 5
        /\ users[5].studentId = 1
        /\ req[r].studentId = 2
        /\ req[r].status = 403

(* C14: a finished student detail, attendance history or attendance        *)
(* summary request of a TEACHER user returned a student's data only if the *)
(* student's classTeacherId is the teacher linked to the user.             *)
TeacherReadsOnlyHomeroomStudents ==
    \A r \in Slots :
        (/\ req[r].pc = "done"
         /\ req[r].op \in {"getStudent", "getStudentAttendance", "getStudentSummary"}
         /\ req[r].user # 0
         /\ users[req[r].user].role = "TEACHER"
         /\ req[r].data # 0)
        => students[req[r].data].classTeacherId = users[req[r].user].teacherId

----------------------------------------------------------------------------
(* Properties of enrolment, checked under SpecEnrolment *)

(* C15: after every step there is at most one membership row for each     *)
(* (groupId, studentId); the transaction of an addGroupMembers call leaves *)
(* every row that existed as it was, addedBy included; and when the group  *)
(* and all the students it names exist, whether or not they are members    *)
(* already, it answers 200.                                                *)
AddGroupMembersIdempotent ==
    [][/\ \A i, j \in 1..Len(groupMembers') :
            (/\ groupMembers'[i].groupId = groupMembers'[j].groupId
             /\ groupMembers'[i].studentId = groupMembers'[j].studentId) => i = j
       /\ Len(groupMembers') >= Len(groupMembers)
       /\ \A i \in 1..Len(groupMembers) : groupMembers'[i] = groupMembers[i]
       /\ \A r \in Slots :
            (/\ req[r].op = "addGroupMembers"
             /\ req[r].pc = "tx"
             /\ req'[r] # req[r]
             /\ req[r].groupId \in {1, 2}
             /\ \A k \in 1..Len(req[r].studentIds) : req[r].studentIds[k] \in DOMAIN students)
            => /\ req'[r].status = 200
               /\ \A k \in 1..Len(req[r].studentIds) :
                    \E i \in 1..Len(groupMembers') :
                        /\ groupMembers'[i].groupId = req[r].groupId
                        /\ groupMembers'[i].studentId = req[r].studentIds[k]]_vars

(* student 1 was added to group 1 by teacher 101; a later call naming      *)
(* student 1 again, with addedBy 102, answered 200 and the table still     *)
(* holds the one row                                                       *)
MemberReAddedWithoutChange ==
    \E r \in Slots :
        /\ req[r].pc = "done"
        /\ req[r].op = "addGroupMembers"
        /\ req[r].status = 200
        /\ req[r].groupId = 1
        /\ req[r].studentIds = <<1>>
        /\ req[r].addedBy = 102
        /\ groupMembers = <<[groupId |-> 1, studentId |-> 1, addedBy |-> 101]>>

----------------------------------------------------------------------------
(* Properties of teacher assignments, checked under SpecAssignments *)

SameAssignment(a, b) ==
    /\ a.teacherId = b.teacherId
    /\ a.subjectId = b.subjectId
    /\ a.classroomId = b.classroomId
    /\ a.startDate = b.startDate

(* C16: when the duplicate check of assignTeacherSubject runs and a row    *)
(* with the request's (teacher, subject, classroom, startDate) exists, the *)
(* answer is 409 and carries that row; a row is created only for a tuple   *)
(* no row has; and after every step of a run of successive calls no two    *)
(* rows have the same tuple.                                               *)
DuplicateAssignmentRejected ==
    [][/\ \A i, j \in 1..Len(teacherSubjects') :
            SameAssignment(teacherSubjects'[i], teacherSubjects'[j]) => i = j
       /\ \A r \in Slots :
            (/\ req[r].op = "assignTeacherSubject"
             /\ req[r].pc = "findExisting"
             /\ req'[r] # req[r])
            => \A i \in 1..Len(teacherSubjects) :
                    SameAssignment(teacherSubjects[i], req[r])
                    => /\ req'[r].pc = "done"
                       /\ req'[r].status = 409
                       /\ req'[r].data = teacherSubjects[i].id]_vars

(* teacher 101 holds subject 1 in classroom 10 from hour 24 on, and the    *)
(* call that asked for the same tuple again was answered 409 with that row *)
DuplicateAssignmentRefused ==
    \E r \in Slots : \E i \in 1..Len(teacherSubjects) :
        /\ req[r].pc = "done"
        /\ req[r].op = "assignTeacherSubject"
        /\ req[r].status = 409
        /\ req[r].teacherId = 101
        /\ req[r].classroomId = 10
        /\ req[r].startDate = 24
        /\ SameAssignment(teacherSubjects[i], req[r])
        /\ req[r].data = teacherSubjects[i].id

----------------------------------------------------------------------------
(* Properties of notifications, checked under SpecNotifications *)

(* C17: the tables of notices and of fan-out targets change only in the    *)
(* step that ends a createNotification call with 201, and that step adds   *)
(* the one notice together with one target row for every id of the four    *)
(* buckets; a call that ends otherwise leaves neither a notice nor a       *)
(* target behind.                                                          *)
NotificationFanOutAtomic ==
    [][(notifications' # notifications \/ notificationTargets' # notificationTargets)
       => \E r \in Slots :
            /\ req[r].op = "createNotification"
            /\ req'[r].pc = "done"
            /\ req'[r].status = 201
            /\ Len(notifications') = Len(notifications) + 1
            /\ \A i \in 1..Len(notifications) : notifications'[i] = notifications[i]
            /\ notifications'[Len(notifications')].schoolId = req[r].schoolId
            /\ notificationTargets' =
                    notificationTargets
                    \o targetRows(req[r], notifications'[Len(notifications')].id)
            /\ req'[r].data = Len(req[r].studentIds) + Len(req[r].studentGroupIds)
                              + Len(req[r].teacherIds) + Len(req[r].classroomIds)]_vars

(* a call for school 1 with four targets failed inside its transaction,    *)
(* and there is neither a notice nor a target row                          *)
FailedFanOutLeftNothing ==
    \E r \in Slots :
        /\ req[r].pc = "done"
        /\ req[r].op = "createNotification"
        /\ req[r].status = 500
        /\ req[r].schoolId = 1
        /\ req[r].classroomIds = <<10>>
        /\ notifications = <<>>
        /\ notificationTargets = <<>>

----------------------------------------------------------------------------
(* Properties of timetables, checked under SpecTimetables *)

(* C18: a replaceClassroomTimetable call of an authorized caller whose     *)
(* batch has two entries with the same (weekDay, period) ends with 400 and *)
(* leaves the stored rows as they were; a call that ends with 200 leaves   *)
(* the classroom with exactly the rows of the batch and the other          *)
(* classrooms untouched; the rows change in no other step; and no two      *)
(* stored rows of a classroom share (weekDay, period).                     *)
TimetableReplacedWhole ==
    [][/\ \A a, b \in timetable' :
            (/\ a.classroomId = b.classroomId
             /\ a.weekDay = b.weekDay
             /\ a.period = b.period) => a = b
       /\ \A r \in Slots :
            (/\ req'[r] # req[r]
             /\ req'[r].pc = "done"
             /\ req'[r].op = "replaceClassroomTimetable")
            => /\ (\E i, j \in 1..Len(req'[r].timetableEntries) :
                        /\ i # j
                        /\ req'[r].timetableEntries[i].weekDay
                                = req'[r].timetableEntries[j].weekDay
                        /\ req'[r].timetableEntries[i].period
                                = req'[r].timetableEntries[j].period)
                  => (req'[r].status = 400 /\ timetable' = timetable)
               /\ req'[r].status = 200
                  => /\ {row \in timetable' : row.classroomId = req'[r].classroomId}
                        = {[classroomId |-> req'[r].classroomId,
                            weekDay |-> req'[r].timetableEntries[i].weekDay,
                            period |-> req'[r].timetableEntries[i].period,
                            label |-> req'[r].timetableEntries[i].label] :
                                i \in 1..Len(req'[r].timetableEntries)}
                     /\ {row \in timetable' : row.classroomId # req'[r].classroomId}
                        = {row \in timetable : row.classroomId # req'[r].classroomId}
               /\ req'[r].status # 200 => timetable' = timetable
       /\ timetable' # timetable
            => \E r \in Slots : /\ req'[r].pc = "done"
                                /\ req'[r].op = "replaceClassroomTimetable"
                                /\ req'[r].status = 200]_vars

(* classroom 10 holds Mathematics and Advisory, and a later batch with     *)
(* (1, 1) twice, separated by another entry, was answered 400              *)
DuplicateSlotBatchRefused ==
    \E r \in Slots :
        /\ req[r].pc = "done"
        /\ req[r].op = "replaceClassroomTimetable"
        /\ req[r].status = 400
        /\ req[r].classroomId = 10
        /\ Len(req[r].timetableEntries) = 3
        /\ timetable = {[classroomId |-> 10, weekDay |-> 1, period |-> 1, label |-> "Mathematics"],
                        [classroomId |-> 10, weekDay |-> 1, period |-> 2, label |-> "Advisory"]}

----------------------------------------------------------------------------
(* Properties of student records, checked under SpecStudents *)

(* C19: every student whose classTeacherId is set references a teacher of  *)
(* the student's own school.                                               *)
ClassTeacherOfSameSchool ==
    \A id \in DOMAIN students :
        students[id].classTeacherId # 0
        => /\ students[id].classTeacherId \in DOMAIN Teacher
           /\ Teacher[students[id].classTeacherId].schoolId = students[id].schoolId

----------------------------------------------------------------------------
(* The scenario of a classroom's day, checked under SpecReads *)

OnePresent == [total |-> 1, present |-> 1, absent |-> 0, late |-> 0, excused |-> 0,
               attendanceRate |-> 100]

(* C20: teacher 101 (user 2) is the homeroom teacher of classroom 10 with  *)
(* student 1.  A createSession call of that teacher for the classroom ends *)
(* with 201 when no session of that date existed and with 409 when one     *)
(* did; the teacher's recordAttendance on the session passes the homeroom  *)
(* check while now is at or before the deadline and then ends with 200     *)
(* having stored the entry; and a summary for student 1 taken on the       *)
(* session's day, when that entry is the student's one row and says        *)
(* present, reports today total = 1, present = 1, rate = 1.00 (100         *)
(* hundredths) in a 200 answer.                                            *)
ClassroomDayScenario ==
    [][\A r \in Slots :
        /\ (/\ req'[r] # req[r]
            /\ req'[r].op = "createSession"
            /\ req'[r].pc = "done"
            /\ req'[r].tokenSub = 2)
           => /\ req'[r].status = IF req'[r].existedAtStart THEN 409 ELSE 201
              /\ req'[r].status = 201 <=> Len(sessions') = Len(sessions) + 1
        /\ (/\ req'[r] # req[r]
            /\ req[r].op = "recordAttendance"
            /\ req[r].tokenSub = 2
            /\ SessionById(req[r].sessionId) # {})
           => LET session == sessions[CHOOSE i \in SessionById(req[r].sessionId) : TRUE] IN
              /\ req[r].pc = "findSession" => req'[r].pc = "homeroom"
              /\ (/\ req[r].pc = "homeroom"
                  /\ session.classroomId = 10
                  /\ now <= session.sessionDate + EDIT_WINDOW_HOURS)
                 => req'[r].pc = "tx"
              /\ req[r].pc = "tx"
                 => /\ req'[r].status = 200
                    /\ \A k \in 1..Len(req[r].entries) :
                         \E i \in 1..Len(attendance') :
                            /\ attendance'[i].attendanceSessionId = req[r].sessionId
                            /\ attendance'[i].studentId = req[r].entries[k].studentId
        /\ (/\ req'[r] # req[r]
            /\ req[r].op = "getStudentSummary"
            /\ req[r].studentId = 1
            /\ req[r].pc = "today"
            /\ Len(attendance) = 1
            /\ attendance[1].studentId = 1
            /\ attendance[1].status = "present"
            /\ SessionDateOf(attendance[1]) = req[r].at - (req[r].at % HoursPerDay))
           => req'[r].summary.today = OnePresent
        /\ (/\ req'[r] # req[r]
            /\ req[r].op = "getStudentSummary"
            /\ req[r].pc = "overall")
           => /\ req'[r].status = 200
              /\ req'[r].summary.today = req[r].summary.today]_vars

(* the session of hour 0 exists, student 1 is marked present in it, and    *)
(* the summary asked for at an hour of that day was answered with one      *)
(* present row out of one for today                                        *)
SummaryAfterRecordedDay ==
    \E r \in Slots :
        /\ req[r].pc = "done"
        /\ req[r].op = "getStudentSummary"
        /\ req[r].status = 200
        /\ req[r].data = 1
        /\ req[r].at < HoursPerDay
        /\ req[r].summary.today = OnePresent
        /\ Len(sessions) = 1
        /\ Len(attendance) = 1
        /\ attendance[1].status = "present"

----------------------------------------------------------------------------
(* Properties of classroom reads, checked under SpecClassrooms *)

(* what the claims expect of canEdit for the session with this id *)
MayEdit(userId, classroomId, sessionId) ==
    /\ users[userId].role = "TEACHER"
    /\ IsClassTeacherIn(users[userId].teacherId, classroomId)
    /\ \E i \in 1..Len(sessions) :
            /\ sessions[i].id = sessionId
            /\ now <= sessions[i].sessionDate - (sessions[i].sessionDate % HoursPerDay)
                      + EDIT_WINDOW_HOURS

(* C21: in a 200 answer of the session list and of the classroom summary   *)
(* every listed session has canEdit true exactly when the caller is a      *)
(* teacher, a student of the classroom has him as class teacher, and now   *)
(* is at or before the midnight of the session date plus 24 hours; the     *)
(* same holds of the canEdit of a 200 answer of the session detail.        *)
CanEditOnlyHomeroomWithinWindow ==
    [][\A r \in Slots :
        (/\ req'[r] # req[r]
         /\ req'[r].pc = "done"
         /\ req'[r].status = 200)
        => /\ req'[r].op \in {"getClassroomSessions", "getClassroomSummary"}
              => \A p \in req'[r].payload :
                    p.canEdit <=> MayEdit(req'[r].user, req'[r].classroomId, p.id)
           /\ req'[r].op = "getSessionDetail"
              => \E i \in 1..Len(sessions) :
                    /\ sessions[i].id = req[r].sessionId
                    /\ req'[r].canEdit
                       <=> MayEdit(req'[r].user, sessions[i].classroomId, sessions[i].id)]_vars

(* at hour 48 the homeroom teacher's list shows the session of hour 0      *)
(* closed and the session of hour 24 still open                            *)
ListShowsOpenAndClosedSession ==
    \E r \in Slots :
        /\ req[r].pc = "done"
        /\ req[r].op = "getClassroomSessions"
        /\ req[r].status = 200
        /\ req[r].tokenSub = 2
        /\ now = 48
        /\ \E p, q \in req[r].payload : p.canEdit /\ ~q.canEdit

----------------------------------------------------------------------------
(* Concurrent session creation, checked under SpecSessions *)

(* C22: with two createSession requests in flight, a request of an         *)
(* authorised caller that gets past validation ends with 201 or with 409   *)
(* and with no other status, 201 exactly when it added the session row,    *)
(* and a (classroom, date) pair never has two rows.                        *)
ConcurrentCreatesAnswered201Or409 ==
    [][\A r \in Slots :
        (/\ req[r].op = "createSession"
         /\ req[r].pc \notin {"idle", "done"}
         /\ req'[r].pc = "done"
         /\ AuthorisedCreator(req[r]))
        => /\ req'[r].status \in {201, 409}
           /\ req'[r].status = 201 <=> Len(sessions') = Len(sessions) + 1
           /\ \A i, j \in 1..Len(sessions') :
                (/\ sessions'[i].classroomId = sessions'[j].classroomId
                 /\ sessions'[i].sessionDate = sessions'[j].sessionDate) => i = j]_vars

----------------------------------------------------------------------------
(* Properties of sessions and records under writes that are refused,       *)
(* checked under SpecRecords                                               *)

(* C23: a step that ends a createSession request with 409 leaves every     *)
(* session row, with its schoolId, startsAt and endsAt, and every          *)
(* attendance row as it was, and so does every earlier step of that        *)
(* request.                                                                *)
ConflictLeavesSessionUntouched ==
    [][\A r \in Slots :
        (/\ req[r].op = "createSession"
         /\ req[r].pc \notin {"idle", "done"}
         /\ req[r].existedAtStart)
        => /\ sessions' = sessions
           /\ attendance' = attendance
           /\ req'[r].pc = "done" => req'[r].status \in {403, 409}]_vars

(* the session of classroom 10 was created without hours and has a record; *)
(* a later request for the same day with hours 9 to 10 was answered 409    *)
ConflictAfterRecordedSession ==
    \E r \in Slots :
        /\ req[r].pc = "done"
        /\ req[r].op = "createSession"
        /\ req[r].status = 409
        /\ Len(sessions) = 1
        /\ sessions[1].startsAt = 0
        /\ Len(attendance) >= 1

(* C24: the step that runs the upserts of a recordAttendance call either   *)
(* ends with 200 and a row for every entry of the batch, or, when an entry *)
(* names a student that does not exist, ends with 500 and leaves the       *)
(* attendance rows exactly as they were; no other step of the call writes  *)
(* a row.                                                                  *)
RecordBatchAllOrNothing ==
    [][\A r \in Slots :
        (/\ req[r].op = "recordAttendance"
         /\ req[r].pc \notin {"idle", "done"}
         /\ req'[r] # req[r])
        => IF req'[r].pc = "done" /\ req'[r].status = 200
           THEN \A k \in 1..Len(req[r].entries) :
                    \E i \in 1..Len(attendance') :
                        /\ attendance'[i].attendanceSessionId = req[r].sessionId
                        /\ attendance'[i].studentId = req[r].entries[k].studentId
           ELSE /\ attendance' = attendance
                /\ (/\ req[r].pc = "tx"
                    /\ \E k \in 1..Len(req[r].entries) :
                            req[r].entries[k].studentId \notin DOMAIN students)
                   => req'[r].status = 500]_vars

(* a batch was refused with 500 while student 1 is marked present in the   *)
(* session and student 2, named by the refused batch, has no row           *)
FailedBatchLeftNoRow ==
    \E r \in Slots :
        /\ req[r].pc = "done"
        /\ req[r].op = "recordAttendance"
        /\ req[r].status = 500
        /\ Len(attendance) = 1
        /\ attendance[1].studentId = 1
        /\ attendance[1].status = "present"

----------------------------------------------------------------------------
(* Teachers' view of classrooms, checked under SpecClassrooms *)

HasSubjectIn(teacherId, classroomId) ==
    \E i \in 1..Len(teacherSubjects) :
        /\ teacherSubjects[i].teacherId = teacherId
        /\ teacherSubjects[i].classroomId = classroomId

----------------------------------------------------------------------------
(* The life of a (classroom, date) pair, checked under Spec *)

(* 0: no session row for the pair; 1: a row, the clock `t` at or before    *)
(* midnight of the date plus the edit window; 2: a row, the clock past it  *)
PairState(rows, t, classroomId, date) ==
    IF \A i \in 1..Len(rows) :
            ~(rows[i].classroomId = classroomId /\ rows[i].sessionDate = date)
    THEN 0
    ELSE IF t <= (date - (date % HoursPerDay)) + EDIT_WINDOW_HOURS THEN 1 ELSE 2

RowsOfSession(rows, sessionId) ==
    {rows[i] : i \in {j \in 1..Len(rows) : rows[j].attendanceSessionId = sessionId}}

----------------------------------------------------------------------------
(* Homeroom rights follow the student rows, checked under Spec *)

(* C27: whatever updateStudent has made of the student rows, a teacher's   *)
(* createSession or recordAttendance for a classroom in which no student   *)
(* row now names him as class teacher ends with 403 and writes nothing,    *)
(* also when a row named him before; and one for a classroom in which a    *)
(* student row now names him is never refused for the homeroom, also when  *)
(* no row named him before.                                                *)
HomeroomRightsFollowStudentRows ==
    [][\A r \in Slots :
        (/\ req[r].op \in {"createSession", "recordAttendance"}
         /\ req[r].pc # "done"
         /\ req'[r].pc = "done"
         /\ TeacherRequest(req[r])
         /\ ~req[r].deviceAuth
         /\ req[r].op = "recordAttendance" => SessionById(req[r].sessionId) # {})
        => LET t == users[req[r].user].teacherId
               c == IF req[r].op = "createSession"
                    THEN req[r].classroomId
                    ELSE sessions[CHOOSE i \in SessionById(req[r].sessionId) : TRUE].classroomId
               named == \E s \in DOMAIN students :
                            /\ students[s].classroomId = c
                            /\ students[s].classTeacherId = t
           IN IF named
              THEN req'[r].message # HomeroomMessage
              ELSE /\ req'[r].status = 403
                   /\ sessions' = sessions
                   /\ attendance' = attendance]_vars

(* student 1, the only one who named teacher 101, now names teacher 102:   *)
(* teacher 102 recorded attendance on the session and teacher 101's rows   *)
(* are gone                                                                *)
NewClassTeacherAccepted ==
    \E r \in Slots :
        /\ students[1].classTeacherId = 102
        /\ \A s \in DOMAIN students : students[s].classTeacherId # 101
        /\ req[r].pc = "done"
        /\ req[r].op = "recordAttendance"
        /\ req[r].user = 3
        /\ req[r].status = 200
        /\ attendance # <<>>

----------------------------------------------------------------------------
(* The school of a session, checked under SpecSessions *)

(* C28: every AttendanceSession row carries the schoolId of the classroom  *)
(* it refers to.                                                           *)
SessionSchoolIsClassroomSchool ==
    \A i \in 1..Len(sessions) :
        /\ sessions[i].classroomId \in DOMAIN Classroom
        /\ sessions[i].schoolId = Classroom[sessions[i].classroomId].schoolId

----------------------------------------------------------------------------
(* The students of attendance rows, checked under SpecRecords *)

(* C29: every StudentAttendance row that a step creates or changes names a *)
(* student who, at that step, is in the classroom and in the school of the *)
(* row's attendance session.                                               *)
AttendanceRowOfClassroomStudent ==
    [][\A i \in 1..Len(attendance') :
        (i > Len(attendance) \/ attendance'[i] # attendance[i])
        => \E j \in SessionById(attendance'[i].attendanceSessionId) :
            /\ attendance'[i].studentId \in DOMAIN students
            /\ students[attendance'[i].studentId].classroomId = sessions[j].classroomId
            /\ students[attendance'[i].studentId].schoolId = sessions[j].schoolId]_vars

----------------------------------------------------------------------------
(* Students and their classrooms, checked under SpecStudents *)

StudentInOwnSchoolClassroom(row) ==
    /\ row.classroomId \in DOMAIN Classroom
    /\ Classroom[row.classroomId].schoolId = row.schoolId

(* C30: in every state each student's classroom is a classroom of the      *)
(* student's school; a createStudent or an updateStudent that reaches the  *)
(* classroom lookup with a classroom of another school than the student's  *)
(* ends there with 400 and writes nothing; and a step that creates a       *)
(* student, or writes an update that names a classroom, leaves the row     *)
(* with that classroom and with its grade level and section label.         *)
StudentClassroomOfOwnSchool ==
    /\ [](\A s \in DOMAIN students : StudentInOwnSchoolClassroom(students[s]))
    /\ [][\A r \in Slots :
            /\ (/\ req[r].op = "createStudent"
                /\ req[r].pc = "findClassroom"
                /\ req'[r] # req[r]
                /\ req[r].classroomId \in DOMAIN Classroom
                /\ Classroom[req[r].classroomId].schoolId # req[r].schoolId)
               => /\ req'[r].pc = "done"
                  /\ req'[r].status = 400
                  /\ students' = students
            /\ (/\ req[r].op = "updateStudent"
                /\ req[r].pc = "findClassroom"
                /\ req'[r] # req[r]
                /\ req[r].classroomId \in DOMAIN Classroom
                /\ Classroom[req[r].classroomId].schoolId # students[req[r].studentId].schoolId)
               => /\ req'[r].pc = "done"
                  /\ req'[r].status = 400
                  /\ students' = students
            /\ (/\ req[r].op = "createStudent"
                /\ students' # students)
               => \E s \in DOMAIN students' \ DOMAIN students :
                    /\ students'[s].schoolId = req[r].schoolId
                    /\ students'[s].classroomId = req[r].classroomId
                    /\ students'[s].gradeLevel = Classroom[req[r].classroomId].gradeLevel
                    /\ students'[s].sectionLabel = Classroom[req[r].classroomId].sectionLabel
            /\ (/\ req[r].op = "updateStudent"
                /\ req[r].pc = "update"
                /\ req'[r].status = 200
                /\ req[r].classroomId # 0)
               => /\ students'[req[r].studentId].classroomId = req[r].classroomId
                  /\ students'[req[r].studentId].schoolId = students[req[r].studentId].schoolId
                  /\ students'[req[r].studentId].gradeLevel
                        = Classroom[req[r].classroomId].gradeLevel
                  /\ students'[req[r].studentId].sectionLabel
                        = Classroom[req[r].classroomId].sectionLabel]_vars

(* student 1 was moved from classroom 10 to classroom 11 of the same       *)
(* school and carries its grade and section; the update that would move    *)
(* student 3 of school 2 into a classroom of school 1 was refused          *)
StudentMovedAndMoveRefused ==
    \E r \in Slots :
        /\ students[1].classroomId = 11
        /\ students[1].gradeLevel = Classroom[11].gradeLevel
        /\ students[1].sectionLabel = Classroom[11].sectionLabel
        /\ req[r].pc = "done"
        /\ req[r].op = "updateStudent"
        /\ req[r].status = 400
        /\ req[r].message = "Cannot move student to a classroom in a different school"
        /\ students[3] = InitStudents[3]

====
